---- MODULE Spec2Model ----
(***************************************************************************)
(* STORM: constraint primitives (constraint.py), balancing components      *)
(* (balancing.py), peak shaving (peaks.py) and the merit-order market      *)
(* clearing (helpers.py), and the build of the reserve components by       *)
(* main.py.                                                                *)
(*                                                                         *)
(* A component's constructor attaches a block of indexed constraints to    *)
(* the shared model; the external solver then returns an assignment that   *)
(* satisfies every attached constraint.  The solver is modelled as the     *)
(* nondeterministic choice of feasible values, one timestep at a time: the *)
(* states with a complete assignment are exactly the feasible assignments  *)
(* over the bounded integer grid.  Each rule of the source is an operator  *)
(* over (assignment, t) that is TRUE where the source returns              *)
(* Constraint.Skip.                                                        *)
(***************************************************************************)
EXTENDS Integers, Sequences, FiniteSets, TLC

VARIABLES
    pc,       \* position of the run: which component is built / solved
    params,   \* the params dict and the constructor arguments captured in self
    model,    \* the shared pyomo model: timesteps and the blocks attached
    counter,  \* the classes' instantiate_counter attributes
    sol,      \* the solver's assignment, defined on timesteps 0..sol.cur-1
    mc,       \* locals of helpers.market_clearing
    np_random, \* numpy's global generator, the one np.random.rand draws from
    harness   \* what a test harness that runs the build twice keeps

vars == <<pc, params, model, counter, sol, mc, np_random, harness>>

(***************************************************************************)
(* Bounds of the model                                                     *)
(***************************************************************************)
MaxSteps == 6       \* longest horizon of the small-horizon components
MaxDuration == 4    \* largest ForceDuration duration tried
MaxFlow == 2        \* largest value on the solver's grid for a plain flow
MaxVol == 4         \* largest *_max_vol parameter tried
MaxStepSize == 3    \* largest *_step_size parameter tried
MaxTol == 1         \* largest discrete_level_tol tried
MaxLevelSteps == 2  \* longest horizon of the DiscreteLevels runs
MaxBattPower == 1   \* largest batt_power parameter tried
MaxPairSteps == 3   \* longest horizon of the MutualExclusivity runs
MaxPeakSteps == 3   \* longest horizon of the PeakShaving runs
MaxBids == 2        \* most rows of the bid file
MaxReserveSteps == 17  \* longest horizon of the balancing runs
MaxBidVol == 2      \* largest bid volume on the solver's grid

(***************************************************************************)
(* Constants of the program                                                *)
(***************************************************************************)
BigMFactor == 100   \* big-M is 100 times batt_power
Milli == 1000       \* 1 / 0.001, the slack of second_big_m_rule
IntervalLength == 16  \* 15-minute steps of a 4h period
ClearingLen == 672  \* length of clearing_prices_np
Duration == 16      \* self.duration of FCR and aFRR
SlotSteps == 16     \* repeat(16): 15-minute steps of a 4h slot
StepsPerDay == 96   \* intervals = 96 * params['days']
SlotsPerDay == 6    \* rand(days * 6): 4h slots of a day
Tenth == 10         \* 0.2 is 2 / 10: reals are held in tenths

(***************************************************************************)
(* Shared helpers                                                          *)
(***************************************************************************)
Skip == TRUE        \* po.Constraint.Skip: no constraint for this index

Timesteps == 0 .. (model.timesteps - 1)

NoCounter ==
    [DiscreteLevels |-> 0, ForceDuration |-> 0, MutualExclusivity |-> 0,
     FCR |-> 0, aFRR |-> 0]

\* f extended by the value v at index t
Ext(f, t, v) == [i \in (DOMAIN f) \cup {t} |-> IF i = t THEN v ELSE f[i]]

Empty == [i \in {} |-> 0]

Unused == "unused"

(***************************************************************************)
(* constraint.ForceDuration                                                *)
(***************************************************************************)
reach_rule_shifted(flow, duration, t) ==
    IF t > 0 /\ (t + 1) % duration # 0
    THEN flow[t] = flow[t - 1]
    ELSE Skip

reach_rule(flow, duration, t) ==
    IF t > 0 /\ t % duration # 0
    THEN flow[t] = flow[t - 1]
    ELSE Skip

FD_Init ==
    /\ pc = "fd_new"
    /\ \E d \in 1 .. MaxDuration : params = [duration |-> d]
    /\ \E n \in 1 .. MaxSteps : model = [timesteps |-> n, blocks |-> <<>>]
    /\ counter = NoCounter
    /\ sol = Unused
    /\ np_random = Unused
    /\ harness = Unused
    /\ mc = Unused

\* ForceDuration.__init__: count the instance, register the block, attach
\* reach_constraint over all timesteps
FD_Construct ==
    /\ pc = "fd_new"
    /\ counter' = [counter EXCEPT !.ForceDuration = @ + 1]
    /\ model' = [model EXCEPT !.blocks =
                    Append(@, <<"ForceDurationBlock", counter'.ForceDuration>>)]
    /\ sol' = [cur |-> 0, flow |-> Empty]
    /\ pc' = "fd_solve"
    /\ UNCHANGED <<params, mc>>
    /\ UNCHANGED <<np_random, harness>>

\* the solver fixes flow[cur] to a value that reach_constraint[cur] admits
FD_Solve ==
    /\ pc = "fd_solve"
    /\ sol.cur < model.timesteps
    /\ \E v \in 0 .. MaxFlow :
         LET flow == Ext(sol.flow, sol.cur, v) IN
         /\ reach_rule(flow, params.duration, sol.cur)
         /\ sol' = [cur |-> sol.cur + 1, flow |-> flow]
    /\ pc' = IF sol.cur + 1 = model.timesteps THEN "fd_solved" ELSE "fd_solve"
    /\ UNCHANGED <<params, model, counter, mc>>
    /\ UNCHANGED <<np_random, harness>>

FD_Next == FD_Construct \/ FD_Solve

SpecForceDuration == FD_Init /\ [][FD_Next]_vars

\* an assignment that is constant on each window [k*D, (k+1)*D)
WindowConstant(f, D) == \A t \in DOMAIN f : f[t] = f[D * (t \div D)]

\* C1: every feasible flow equals its predecessor at each t > 0 with
\* t mod D # 0, hence is constant on each window anchored at a multiple of D;
\* and at t = 0 and at multiples of D nothing links flow[t] to flow[t-1]:
\* every window-constant assignment satisfies all reach constraints.
C1_ForceDurationWindows ==
    /\ pc = "fd_solved" =>
         /\ \A t \in Timesteps :
              (t > 0 /\ t % params.duration # 0) => sol.flow[t] = sol.flow[t - 1]
         /\ WindowConstant(sol.flow, params.duration)
    /\ (pc = "fd_solve" /\ sol.cur = 0) =>
         \A f \in [Timesteps -> 0 .. MaxFlow] :
            WindowConstant(f, params.duration) =>
               \A t \in Timesteps : reach_rule(f, params.duration, t)

\* a solved horizon with two full windows of length 2 whose values differ
C1_Witness ==
    /\ pc = "fd_solved"
    /\ params.duration = 2
    /\ model.timesteps >= 4
    /\ sol.flow[0] = sol.flow[1]
    /\ sol.flow[1] # sol.flow[2]
    /\ sol.flow[2] = sol.flow[3]

\* C20: a ForceDuration whose duration does not divide the horizon length
\* evenly is built without an exception and its constraint system is
\* infeasible: the solver returns no assignment.
C20_MalformedDurationInfeasible ==
    /\ pc \in {"fd_new", "fd_solve", "fd_solved"}
    /\ (pc \in {"fd_solve", "fd_solved"}
           /\ model.timesteps % params.duration # 0)
         => pc # "fd_solved"

(***************************************************************************)
(* constraint.DiscreteLevels                                               *)
(***************************************************************************)
RECURSIVE SumOver(_, _)
\* sum(f[i] for i in S)
SumOver(f, S) ==
    IF S = {} THEN 0
    ELSE LET i == CHOOSE x \in S : TRUE IN f[i] + SumOver(f, S \ {i})

\* list(range(start, stop, step)) for step >= 1, indexed from 0
PyRange(start, stop, step) ==
    LET n == IF stop > start THEN (stop - start + step - 1) \div step ELSE 0
    IN [i \in 0 .. (n - 1) |-> start + i * step]

\* self.block.indices = range(len(self.levels))
LevelIndices(levels) == DOMAIN levels

upper_bound_rule(flow, decision, levels, tol, t) ==
    flow[t] <= SumOver([i \in LevelIndices(levels) |->
                          (levels[i] + tol) * decision[<<i, t>>]],
                       LevelIndices(levels))

lower_bound_rule(flow, decision, levels, tol, t) ==
    flow[t] >= SumOver([i \in LevelIndices(levels) |->
                          (levels[i] - tol) * decision[<<i, t>>]],
                       LevelIndices(levels))

single_choice_rule_atleast(decision, levels, t) ==
    SumOver([i \in LevelIndices(levels) |-> decision[<<i, t>>]],
            LevelIndices(levels)) >= 1

single_choice_rule(decision, levels, t) ==
    SumOver([i \in LevelIndices(levels) |-> decision[<<i, t>>]],
            LevelIndices(levels)) = 1

\* the three constraints DiscreteLevels attaches for timestep t
DiscreteLevelsAt(flow, decision, levels, tol, t) ==
    /\ upper_bound_rule(flow, decision, levels, tol, t)
    /\ lower_bound_rule(flow, decision, levels, tol, t)
    /\ single_choice_rule(decision, levels, t)

\* decision extended by the binaries d[i] of timestep t
ExtDecision(decision, levels, t, d) ==
    [k \in (DOMAIN decision) \cup {<<i, t>> : i \in LevelIndices(levels)} |->
        IF k[2] = t THEN d[k[1]] ELSE decision[k]]

DL_Init ==
    /\ pc = "dl_new"
    /\ \E lo \in 0 .. 1, hi \in 0 .. MaxVol, step \in 1 .. MaxStepSize,
          tol \in 0 .. MaxTol :
         /\ lo <= hi
         /\ params = [levels |-> PyRange(lo, hi + 1, step),
                      discrete_level_tol |-> tol]
    /\ \E n \in 1 .. MaxLevelSteps : model = [timesteps |-> n, blocks |-> <<>>]
    /\ counter = NoCounter
    /\ sol = Unused
    /\ np_random = Unused
    /\ harness = Unused
    /\ mc = Unused

\* DiscreteLevels.__init__: count the instance, register the block with its
\* index set and binaries, attach the three constraints over all timesteps
DL_Construct ==
    /\ pc = "dl_new"
    /\ counter' = [counter EXCEPT !.DiscreteLevels = @ + 1]
    /\ model' = [model EXCEPT !.blocks =
                    Append(@, <<"DiscreteLevelsBlock", counter'.DiscreteLevels>>)]
    /\ sol' = [cur |-> 0, flow |-> Empty, decision |-> Empty]
    /\ pc' = "dl_solve"
    /\ UNCHANGED <<params, mc>>
    /\ UNCHANGED <<np_random, harness>>

\* the solver fixes flow[cur] and decision[., cur]
DL_Solve ==
    /\ pc = "dl_solve"
    /\ sol.cur < model.timesteps
    /\ \E v \in 0 .. (MaxVol + MaxTol + 1),
          d \in [LevelIndices(params.levels) -> {0, 1}] :
         LET flow == Ext(sol.flow, sol.cur, v)
             decision == ExtDecision(sol.decision, params.levels, sol.cur, d)
         IN
         /\ DiscreteLevelsAt(flow, decision, params.levels,
                             params.discrete_level_tol, sol.cur)
         /\ sol' = [cur |-> sol.cur + 1, flow |-> flow, decision |-> decision]
    /\ pc' = IF sol.cur + 1 = model.timesteps THEN "dl_solved" ELSE "dl_solve"
    /\ UNCHANGED <<params, model, counter, mc>>
    /\ UNCHANGED <<np_random, harness>>

DL_Next == DL_Construct \/ DL_Solve

SpecDiscreteLevels == DL_Init /\ [][DL_Next]_vars

\* the levels within eps of the value v
LevelsNear(levels, tol, v) ==
    {i \in LevelIndices(levels) : levels[i] - tol <= v /\ v <= levels[i] + tol}

\* the levels selected at timestep t
Selected(t) ==
    {i \in LevelIndices(params.levels) : sol.decision[<<i, t>>] = 1}

\* distinct levels are more than 2*eps apart
BandsDisjoint(levels, tol) ==
    \A i, j \in LevelIndices(levels) :
        i < j => levels[j] - levels[i] > 2 * tol

\* C2 (as stated): at every timestep exactly one decision is 1, the flow is
\* within eps of the selected level, and no other level is within eps of it.
C2_Original ==
    pc = "dl_solved" =>
      \A t \in Timesteps :
         \E i \in LevelIndices(params.levels) :
            /\ Selected(t) = {i}
            /\ LevelsNear(params.levels, params.discrete_level_tol,
                          sol.flow[t]) = {i}

\* C2 (amended): at every timestep exactly one decision is 1 and the flow is
\* within eps of the selected level; no other level is within eps of the flow
\* when distinct levels are more than 2*eps apart.
C2_SelectedLevelWithinTol ==
    pc = "dl_solved" =>
      \A t \in Timesteps :
         \E i \in LevelIndices(params.levels) :
            /\ Selected(t) = {i}
            /\ i \in LevelsNear(params.levels, params.discrete_level_tol,
                                sol.flow[t])
            /\ BandsDisjoint(params.levels, params.discrete_level_tol) =>
                 LevelsNear(params.levels, params.discrete_level_tol,
                            sol.flow[t]) = {i}

\* a solved flow off its selected level, inside the tolerance band, with
\* several disjoint bands to choose from
C2_Witness ==
    /\ pc = "dl_solved"
    /\ params.discrete_level_tol = 1
    /\ Cardinality(LevelIndices(params.levels)) >= 2
    /\ BandsDisjoint(params.levels, params.discrete_level_tol)
    /\ \E t \in Timesteps : \E i \in Selected(t) :
          /\ i > 0
          /\ sol.flow[t] = params.levels[i] - 1

(***************************************************************************)
(* constraint.MutualExclusivity                                            *)
(***************************************************************************)
\* MutualExclusivity.__init__: self.big_M = self.params['batt_power'] * 100
MutualBigM(batt_power) == batt_power * BigMFactor

mutual_rule_one(flow_one, mutual, big_M, t) ==
    flow_one[t] <= big_M * mutual[t]

mutual_rule_two_same_branch(flow_two, mutual, big_M, t) ==
    flow_two[t] <= big_M * mutual[t]

mutual_rule_two(flow_two, mutual, big_M, t) ==
    flow_two[t] <= big_M * (1 - mutual[t])

\* the two constraints MutualExclusivity attaches for timestep t
MutualExclusivityAt(flow_one, flow_two, mutual, big_M, t) ==
    /\ mutual_rule_one(flow_one, mutual, big_M, t)
    /\ mutual_rule_two(flow_two, mutual, big_M, t)

\* the solver's grid for the two non-negative flows: small values and values
\* around each big-M the parameters can produce
PairFlowGrid ==
    {0, 1} \cup {MutualBigM(b) + d : b \in 1 .. MaxBattPower, d \in {-1, 0, 1}}

ME_Init ==
    /\ pc = "me_new"
    /\ \E b \in 0 .. MaxBattPower : params = [batt_power |-> b]
    /\ \E n \in 1 .. MaxPairSteps : model = [timesteps |-> n, blocks |-> <<>>]
    /\ counter = NoCounter
    /\ sol = Unused
    /\ np_random = Unused
    /\ harness = Unused
    /\ mc = Unused

\* MutualExclusivity.__init__: size big-M, count the instance, register the
\* block with its binary, attach the two constraints over all timesteps
ME_Construct ==
    /\ pc = "me_new"
    /\ counter' = [counter EXCEPT !.MutualExclusivity = @ + 1]
    /\ model' = [model EXCEPT !.blocks =
                    Append(@, <<"MutualExclusivityBlock",
                                counter'.MutualExclusivity>>)]
    /\ params' = [batt_power |-> params.batt_power,
                  big_M |-> MutualBigM(params.batt_power)]
    /\ sol' = [cur |-> 0, flow_one |-> Empty, flow_two |-> Empty,
               mutual |-> Empty]
    /\ pc' = "me_solve"
    /\ UNCHANGED mc
    /\ UNCHANGED <<np_random, harness>>

\* the solver fixes flow_one[cur], flow_two[cur] and mutual[cur]
ME_Solve ==
    /\ pc = "me_solve"
    /\ sol.cur < model.timesteps
    /\ \E v1 \in PairFlowGrid, v2 \in PairFlowGrid, m \in {0, 1} :
         LET flow_one == Ext(sol.flow_one, sol.cur, v1)
             flow_two == Ext(sol.flow_two, sol.cur, v2)
             mutual == Ext(sol.mutual, sol.cur, m)
         IN
         /\ MutualExclusivityAt(flow_one, flow_two, mutual, params.big_M,
                                sol.cur)
         /\ sol' = [cur |-> sol.cur + 1, flow_one |-> flow_one,
                    flow_two |-> flow_two, mutual |-> mutual]
    /\ pc' = IF sol.cur + 1 = model.timesteps THEN "me_solved" ELSE "me_solve"
    /\ UNCHANGED <<params, model, counter, mc>>
    /\ UNCHANGED <<np_random, harness>>

ME_Next == ME_Construct \/ ME_Solve

SpecMutualExclusivity == ME_Init /\ [][ME_Next]_vars

\* C3: in every feasible assignment of two non-negative flows, at every
\* timestep at most one of the two flows is strictly positive, whichever
\* value mutual[t] has.
C3_AtMostOnePositive ==
    pc \in {"me_solve", "me_solved"} =>
      \A t \in 0 .. (sol.cur - 1) :
         /\ sol.flow_one[t] * sol.flow_two[t] = 0
         /\ ~(sol.flow_one[t] > 0 /\ sol.flow_two[t] > 0)

\* a solved horizon in which each flow is positive at some timestep, under
\* either value of the binary
C3_Witness ==
    /\ pc = "me_solved"
    /\ \E t, u \in Timesteps :
          /\ sol.flow_one[t] > 0 /\ sol.mutual[t] = 1
          /\ sol.flow_two[u] > 0 /\ sol.mutual[u] = 0

\* the upper bounds a flow handed to MutualExclusivity can have: the
\* *_max_vol parameters are entries of the scenario file, independent of
\* batt_power
PairMaxVols == PairFlowGrid \ {0}

\* flow_one = a and flow_two = b at one timestep admit some value of mutual
PairAdmitted(a, b, big_M) ==
    \E m \in {0, 1} :
       MutualExclusivityAt([t \in {0} |-> a], [t \in {0} |-> b],
                           [t \in {0} |-> m], big_M, 0)

\* C12: with M = 100 * batt_power, every pair in which one flow is 0 and the
\* other takes any value its own bounds allow satisfies both constraints for
\* some value of mutual[t]: no exclusive point is cut off.
C12_BigMNeverBinds ==
    pc \in {"me_solve", "me_solved"} =>
      \A max_vol \in PairMaxVols : \A v \in PairFlowGrid :
         v <= max_vol =>
            /\ PairAdmitted(v, 0, params.big_M)
            /\ PairAdmitted(0, v, params.big_M)

\* the exclusive points at or below big-M are admitted
ME_BigMAdmitsBelow ==
    pc \in {"me_solve", "me_solved"} =>
      \A v \in PairFlowGrid :
         v <= params.big_M =>
            /\ PairAdmitted(v, 0, params.big_M)
            /\ PairAdmitted(0, v, params.big_M)

(***************************************************************************)
(* peaks.PeakShaving                                                       *)
(*                                                                         *)
(* Prices and powers are integers on the solver's grid.  The two big-M     *)
(* rules are multiplied by 1000 so that full_load_limit / 100 and the      *)
(* slack 0.001 stay integral: 1000 * (full_load_limit / 100) = 10 *        *)
(* full_load_limit and 1000 * 0.001 = 1.  The variables full_load_time and *)
(* total_full_load_time occur in no constraint and are left out.           *)
(***************************************************************************)
\* PeakShaving._init_variables: self.big_M = days * batt_power * 100
PeakBigM(days, batt_power) == days * batt_power * BigMFactor

compute_supply_rule(supply_power, flow_list, t) ==
    supply_power[t] = SumOver([k \in DOMAIN flow_list |-> flow_list[k][t]],
                              DOMAIN flow_list)

total_supply_rule(total_supply_power, supply_power, t) ==
    IF t > 0
    THEN total_supply_power[t] = total_supply_power[t - 1] + supply_power[t]
    ELSE total_supply_power[t] = 0

copy_value_rule(p_max, supply_power, t) ==
    p_max[t] >= supply_power[t]

peak_value_rule_from_second(p_max, t) ==
    IF t > 1
    THEN p_max[t] >= p_max[t - 1]
    ELSE Skip

peak_value_rule(p_max, t) ==
    IF t > 0
    THEN p_max[t] >= p_max[t - 1]
    ELSE Skip

\* 1000 * (total_supply_power[t] - full_load_limit/100 * len(timesteps) * p_max[t])
ScaledExcess(total_supply_power, p_max, full_load_limit, n, t) ==
    Milli * total_supply_power[t] - 10 * full_load_limit * n * p_max[t]

first_big_m_rule_same_branch(total_supply_power, p_max, delta, full_load_limit, n, big_M, t) ==
    ScaledExcess(total_supply_power, p_max, full_load_limit, n, t)
        >= -(Milli * big_M * delta[t])

first_big_m_rule(total_supply_power, p_max, delta, full_load_limit, n, big_M, t) ==
    ScaledExcess(total_supply_power, p_max, full_load_limit, n, t)
        >= -(Milli * big_M * (1 - delta[t]))

second_big_m_rule(total_supply_power, p_max, delta, full_load_limit, n, big_M, t) ==
    ScaledExcess(total_supply_power, p_max, full_load_limit, n, t)
        <= 1 + Milli * big_M * delta[t]

compute_cost_rule(cost, p_max, cap_price, t) ==
    cost[t] = p_max[t] * cap_price[t]

switch_capacity_price_rule_swapped(cap_price, delta, above, below, n, t) ==
    cap_price[t] = below * delta[n - 1] + above * (1 - delta[n - 1])

switch_capacity_price_rule(cap_price, delta, above, below, n, t) ==
    cap_price[t] = above * delta[n - 1] + below * (1 - delta[n - 1])

switch_energy_price_rule(en_price, delta, above, below, n, t) ==
    en_price[t] = above * delta[n - 1] + below * (1 - delta[n - 1])

\* the constraints of PeakShaving for timestep t that hold in both modes
PeakTrackerAt(s, t) ==
    /\ compute_supply_rule(s.supply_power, s.flow_list, t)
    /\ total_supply_rule(s.total_supply_power, s.supply_power, t)
    /\ copy_value_rule(s.p_max, s.supply_power, t)
    /\ peak_value_rule(s.p_max, t)

\* the constraints of the full-load-time mode for timestep t that read no
\* later timestep; the two ForceDuration blocks have duration len(timesteps)
FullLoadAt(s, p, n, t) ==
    /\ reach_rule(s.cap_price, n, t)
    /\ reach_rule(s.en_price, n, t)
    /\ first_big_m_rule(s.total_supply_power, s.p_max, s.delta,
                        p.full_load_limit, n, p.big_M, t)
    /\ second_big_m_rule(s.total_supply_power, s.p_max, s.delta,
                         p.full_load_limit, n, p.big_M, t)
    /\ compute_cost_rule(s.cost, s.p_max, s.cap_price, t)

\* the switch constraints of every timestep; they read delta[n - 1]
SwitchAll(s, p, n) ==
    \A t \in 0 .. (n - 1) :
       /\ switch_capacity_price_rule(s.cap_price, s.delta,
             p.net_capacity_price_above, p.net_capacity_price_below, n, t)
       /\ switch_energy_price_rule(s.en_price, s.delta,
             p.net_energy_price_above, p.net_energy_price_below, n, t)

\* the lengths of flow_list tried and the solver's grid for one grid-import
\* flow, for the supply of one timestep and for the peak
PeakFlowListLengths == {1, 2}

PeakFlowGrid == {0, 1}

PeakSupplyGrid == 0 .. 2

PeakGrid == 0 .. 3

\* the parameter records tried; without full_load_time the tariff and
\* big-M parameters are never read
PeakParams ==
    {[nflows |-> k, full_load_time |-> TRUE, days |-> 1, batt_power |-> b,
      full_load_limit |-> lim,
      net_capacity_price_above |-> 3, net_capacity_price_below |-> 1,
      net_energy_price_above |-> 2, net_energy_price_below |-> 4] :
        k \in PeakFlowListLengths, b \in {0, 1}, lim \in {0, 50}}
    \cup
    {[nflows |-> k, full_load_time |-> FALSE, days |-> 1, batt_power |-> 1,
      full_load_limit |-> 0,
      net_capacity_price_above |-> 3, net_capacity_price_below |-> 1,
      net_energy_price_above |-> 2, net_energy_price_below |-> 4] :
        k \in PeakFlowListLengths}

PS_Init ==
    /\ pc = "ps_new"
    /\ params \in PeakParams
    /\ \E n \in 1 .. MaxPeakSteps : model = [timesteps |-> n, blocks |-> <<>>]
    /\ counter = NoCounter
    /\ sol = Unused
    /\ np_random = Unused
    /\ harness = Unused
    /\ mc = Unused

\* PeakShaving.__init__: register the block and its variables, size big-M
\* and, in full-load-time mode, build the two ForceDuration instances
PS_Construct ==
    /\ pc = "ps_new"
    /\ IF params.full_load_time
       THEN /\ counter' = [counter EXCEPT !.ForceDuration = @ + 2]
            /\ model' = [model EXCEPT !.blocks =
                  @ \o << <<"PeakShavingBlock", 0>>,
                          <<"ForceDurationBlock", counter.ForceDuration + 1>>,
                          <<"ForceDurationBlock", counter.ForceDuration + 2>> >>]
            /\ params' = [big_M |-> PeakBigM(params.days, params.batt_power)]
                             @@ params
       ELSE /\ counter' = counter
            /\ model' = [model EXCEPT !.blocks =
                            Append(@, <<"PeakShavingBlock", 0>>)]
            /\ params' = params
    /\ sol' = [cur |-> 0,
               flow_list |-> [k \in 1 .. params.nflows |-> Empty],
               supply_power |-> Empty, total_supply_power |-> Empty,
               p_max |-> Empty, delta |-> Empty, cap_price |-> Empty,
               en_price |-> Empty, cost |-> Empty]
    /\ pc' = "ps_solve"
    /\ UNCHANGED mc
    /\ UNCHANGED <<np_random, harness>>

\* the solver fixes the variables of timestep cur, each within the
\* constraints PeakShaving attaches for that timestep; the switch constraints
\* are decided when delta of the final timestep is fixed
PS_Solve ==
    /\ pc = "ps_solve"
    /\ sol.cur < model.timesteps
    /\ LET t == sol.cur
           n == model.timesteps
       IN
       \E fl \in [1 .. params.nflows -> PeakFlowGrid] :
       LET flow_list == [k \in 1 .. params.nflows |->
                            Ext(sol.flow_list[k], t, fl[k])] IN
       \E sp \in PeakSupplyGrid :
       LET supply_power == Ext(sol.supply_power, t, sp) IN
       /\ compute_supply_rule(supply_power, flow_list, t)
       /\ \E tot \in 0 .. (MaxPeakSteps * 2) :
          LET total_supply_power == Ext(sol.total_supply_power, t, tot) IN
          /\ total_supply_rule(total_supply_power, supply_power, t)
          /\ \E pm \in PeakGrid :
             LET p_max == Ext(sol.p_max, t, pm)
                 s1 == [sol EXCEPT !.cur = t + 1,
                                   !.flow_list = flow_list,
                                   !.supply_power = supply_power,
                                   !.total_supply_power = total_supply_power,
                                   !.p_max = p_max]
             IN
             /\ PeakTrackerAt(s1, t)
             /\ IF params.full_load_time
                THEN \E d \in {0, 1} :
                     LET delta == Ext(sol.delta, t, d) IN
                     /\ first_big_m_rule(total_supply_power, p_max, delta,
                           params.full_load_limit, n, params.big_M, t)
                     /\ second_big_m_rule(total_supply_power, p_max, delta,
                           params.full_load_limit, n, params.big_M, t)
                     /\ \E cp \in {params.net_capacity_price_above,
                                   params.net_capacity_price_below},
                           ep \in {params.net_energy_price_above,
                                   params.net_energy_price_below} :
                        LET cap_price == Ext(sol.cap_price, t, cp)
                            en_price == Ext(sol.en_price, t, ep)
                        IN
                        /\ reach_rule(cap_price, n, t)
                        /\ reach_rule(en_price, n, t)
                        /\ \E c \in 0 .. (3 * cp) :
                           LET s2 == [s1 EXCEPT !.delta = delta,
                                                !.cap_price = cap_price,
                                                !.en_price = en_price,
                                                !.cost = Ext(sol.cost, t, c)]
                           IN
                           /\ compute_cost_rule(s2.cost, p_max, cap_price, t)
                           /\ FullLoadAt(s2, params, n, t)
                           /\ (t = n - 1) => SwitchAll(s2, params, n)
                           /\ sol' = s2
                ELSE sol' = s1
    /\ pc' = IF sol.cur + 1 = model.timesteps THEN "ps_solved" ELSE "ps_solve"
    /\ UNCHANGED <<params, model, counter, mc>>
    /\ UNCHANGED <<np_random, harness>>

PS_Next == PS_Construct \/ PS_Solve

SpecPeakShaving == PS_Init /\ [][PS_Next]_vars

\* C4: in every feasible assignment p_max never decreases and is at least
\* the supply of its timestep, where the supply is the sum of the
\* grid-import flows; hence p_max[t] dominates the supply of every s <= t
\* and the final p_max dominates the supply of every timestep.
C4_PeakTracker ==
    pc \in {"ps_solve", "ps_solved"} =>
      \A t \in 0 .. (sol.cur - 1) :
         /\ t > 0 => sol.p_max[t] >= sol.p_max[t - 1]
         /\ sol.p_max[t] >= sol.supply_power[t]
         /\ \A u \in 0 .. t :
              /\ sol.p_max[t] >= sol.supply_power[u]
              /\ sol.p_max[sol.cur - 1] >=
                   SumOver([k \in DOMAIN sol.flow_list |-> sol.flow_list[k][u]],
                           DOMAIN sol.flow_list)

\* a solved horizon whose supply falls after an early peak while p_max keeps
\* the peak, and later rises
C4_Witness ==
    /\ pc = "ps_solved"
    /\ model.timesteps = 3
    /\ sol.supply_power[0] > sol.supply_power[1]
    /\ sol.p_max[1] = sol.supply_power[0]
    /\ sol.p_max[2] > sol.p_max[1]

\* C13: with thr = full_load_limit / 100 * horizon length, in every feasible
\* assignment delta[t] = 1 implies total_supply_power[t] - thr * p_max[t] >= 0
\* and delta[t] = 0 implies total_supply_power[t] - thr * p_max[t] <= 0.001
\* (both sides times 1000).
C13_ThresholdIndicator ==
    (pc \in {"ps_solve", "ps_solved"} /\ params.full_load_time) =>
      \A t \in 0 .. (sol.cur - 1) :
         LET excess == 1000 * sol.total_supply_power[t]
                          - 10 * params.full_load_limit * model.timesteps
                               * sol.p_max[t]
         IN
         /\ sol.delta[t] = 1 => excess >= 0
         /\ sol.delta[t] = 0 => excess <= 1

\* a solved horizon whose cumulative supply is below the threshold share of
\* the peak at first (delta 0) and above it at the end (delta 1)
C13_Witness ==
    /\ pc = "ps_solved"
    /\ params.full_load_time
    /\ params.full_load_limit > 0
    /\ sol.p_max[0] > 0
    /\ sol.delta[0] = 0
    /\ sol.delta[model.timesteps - 1] = 1
    /\ 1000 * sol.total_supply_power[model.timesteps - 1]
          > 10 * params.full_load_limit * model.timesteps
               * sol.p_max[model.timesteps - 1]

\* C14: in full-load-time mode, at every timestep (cap_price[t], en_price[t])
\* is the pair (net_capacity_price_above, net_energy_price_above) when delta
\* of the final timestep is 1 and the pair (net_capacity_price_below,
\* net_energy_price_below) when it is 0; both prices are constant over the
\* horizon whatever the other delta[t] are.
C14_TariffSwitch ==
    (pc = "ps_solved" /\ params.full_load_time) =>
      LET last == sol.delta[model.timesteps - 1] IN
      \A t \in Timesteps :
         /\ last = 1 =>
               /\ sol.cap_price[t] = params.net_capacity_price_above
               /\ sol.en_price[t] = params.net_energy_price_above
         /\ last = 0 =>
               /\ sol.cap_price[t] = params.net_capacity_price_below
               /\ sol.en_price[t] = params.net_energy_price_below
         /\ sol.cap_price[t] = sol.cap_price[0]
         /\ sol.en_price[t] = sol.en_price[0]

\* a solved horizon on the upper tariff although delta was 0 at first
C14_Witness ==
    /\ pc = "ps_solved"
    /\ params.full_load_time
    /\ model.timesteps >= 2
    /\ sol.delta[0] = 0
    /\ sol.delta[model.timesteps - 1] = 1
    /\ sol.cap_price[0] = params.net_capacity_price_above
    /\ sol.en_price[0] = params.net_energy_price_above
    /\ params.net_capacity_price_above # params.net_capacity_price_below

\* a solved horizon on the lower tariff
C14_WitnessBelow ==
    /\ pc = "ps_solved"
    /\ params.full_load_time
    /\ model.timesteps >= 2
    /\ sol.delta[model.timesteps - 1] = 0
    /\ sol.cap_price[0] = params.net_capacity_price_below
    /\ sol.en_price[model.timesteps - 1] = params.net_energy_price_below

\* C23: in every feasible assignment total_supply_power[t] is the supply
\* from the grid over all timesteps up to and including t: the sum of
\* supply_power[s] for s in 0 .. t, where supply_power[s] is the sum of the
\* grid-import flows at s.
C23_CumulativeSupply ==
    pc \in {"ps_solve", "ps_solved"} =>
      \A t \in 0 .. (sol.cur - 1) :
         /\ sol.supply_power[t] =
               SumOver([k \in DOMAIN sol.flow_list |-> sol.flow_list[k][t]],
                       DOMAIN sol.flow_list)
         /\ sol.total_supply_power[t] = SumOver(sol.supply_power, 0 .. t)

\* what the constraints do give: the supply of the timesteps 1 .. t
PS_CumulativeSupplyFromSecond ==
    pc \in {"ps_solve", "ps_solved"} =>
      \A t \in 0 .. (sol.cur - 1) :
         sol.total_supply_power[t] = SumOver(sol.supply_power, 1 .. t)

\* p_max has no upper bound, so peaks above the solver's grid are operating
\* points as well
PeakProbes == PeakGrid \cup {300}

\* C24: with big-M = days * batt_power * 100, for every supply of the next
\* timestep within the flows' bounds and every p_max[t] that is at least the
\* running peak, one of delta[t] = 0, delta[t] = 1 satisfies both big-M
\* constraints.
C24_BigMSufficient ==
    (pc = "ps_solve" /\ params.full_load_time /\ params.batt_power > 0) =>
      LET t == sol.cur
          n == model.timesteps
      IN
      \A fl \in [1 .. params.nflows -> PeakFlowGrid], pm \in PeakProbes :
         LET sp == SumOver(fl, 1 .. params.nflows)
             total_supply_power ==
                Ext(sol.total_supply_power, t,
                    IF t > 0 THEN sol.total_supply_power[t - 1] + sp ELSE 0)
             p_max == Ext(sol.p_max, t, pm)
         IN
         (copy_value_rule(p_max, Ext(sol.supply_power, t, sp), t)
            /\ peak_value_rule(p_max, t)) =>
              \E d \in {0, 1} :
                 /\ first_big_m_rule(total_supply_power, p_max,
                       Ext(sol.delta, t, d), params.full_load_limit, n,
                       params.big_M, t)
                 /\ second_big_m_rule(total_supply_power, p_max,
                       Ext(sol.delta, t, d), params.full_load_limit, n,
                       params.big_M, t)

\* the pairs the disjunction admits are those whose excess lies within
\* big-M (and the slack 0.001) of 0
PS_BigMAdmitsWithin ==
    (pc \in {"ps_solve", "ps_solved"} /\ params.full_load_time) =>
      \A t \in 0 .. (sol.cur - 1) :
         LET excess == ScaledExcess(sol.total_supply_power, sol.p_max,
                                    params.full_load_limit, model.timesteps, t)
         IN  /\ excess >= 0 - Milli * params.big_M
             /\ excess <= 1 + Milli * params.big_M

(***************************************************************************)
(* helpers.market_clearing                                                 *)
(*                                                                         *)
(* Prices are integers in EUR/MWh.  A float is a record: nan, or the       *)
(* fraction num / den, so that the conversion to ct/kWh divides by 10      *)
(* exactly.  A Time label of the bid file is the index of its product in   *)
(* the request profile.  The array clearing_prices_np is its length and    *)
(* the entries written so far; every other entry is the 0.0 of np.zeros.   *)
(***************************************************************************)
NaN == [nan |-> TRUE, num |-> 0, den |-> 1]

Float(x) == [nan |-> FALSE, num |-> x, den |-> 1]

Div10_times(x) == IF x.nan THEN NaN ELSE [x EXCEPT !.num = @ * 10]

\* x / 10 on floats: nan / 10 is nan
Div10(x) == IF x.nan THEN NaN ELSE [x EXCEPT !.den = @ * 10]

\* a == b on floats: nan equals nothing
FloatEq(a, b) == ~a.nan /\ ~b.nan /\ a.num * b.den = b.num * a.den

\* np.zeros(n)
Zeros(n) == [len |-> n, set |-> [i \in {} |-> NaN]]

\* a[i] for 0 <= i < a.len
ArrayAt(a, i) == IF i \in DOMAIN a.set THEN a.set[i] ELSE Float(0)

\* np.arange(0, n, step)
Arange(n, step) == PyRange(0, n, step)

\* np.add.reduceat(a, indices) for an array a indexed from 0: the sum of
\* a[indices[i] : indices[i+1]], the last one to the end of a
ReduceAt(a, indices) ==
    LET n == Cardinality(DOMAIN a)
        k == Cardinality(DOMAIN indices)
    IN [i \in DOMAIN indices |->
           LET hi == IF i + 1 < k THEN indices[i + 1] ELSE n
           IN SumOver(a, indices[i] .. (hi - 1))]

\* np.add.reduceat raises IndexError when an index is not below len(a)
ReduceAtRaises(n, indices) == \E i \in DOMAIN indices : indices[i] >= n

\* bids.loc[bids['Direction'] == 'PROVIDER_TO_GRID', 'Price [EUR/MWh]'] *= -1
AdjustDirection(bids) ==
    [i \in DOMAIN bids |->
        IF bids[i].Direction = "PROVIDER_TO_GRID"
        THEN [bids[i] EXCEPT !.Price = -@]
        ELSE bids[i]]

RowBefore_unstable(bids, a, b) ==
    \/ bids[a].Time < bids[b].Time
    \/ bids[a].Time = bids[b].Time /\ bids[a].Price < bids[b].Price
    \/ bids[a].Time = bids[b].Time /\ bids[a].Price = bids[b].Price /\ a > b

\* the row order of sort_values(by=['Time', 'Price']): row a before row b
RowBefore(bids, a, b) ==
    \/ bids[a].Time < bids[b].Time
    \/ bids[a].Time = bids[b].Time /\ bids[a].Price < bids[b].Price
    \/ bids[a].Time = bids[b].Time /\ bids[a].Price = bids[b].Price /\ a < b

\* bids.sort_values(by=['Time', 'Price [EUR/MWh]']): rows with equal keys
\* keep their order
SortValues(bids) ==
    LET pos(a) == 1 + Cardinality({b \in DOMAIN bids : RowBefore(bids, b, a)})
    IN [k \in DOMAIN bids |-> bids[CHOOSE a \in DOMAIN bids : pos(a) = k]]

\* bids_sorted['Time'].unique(): the labels in order of first appearance
UniqueTimes(bids_sorted) ==
    LET first == {i \in DOMAIN bids_sorted :
                    \A j \in 1 .. (i - 1) :
                       bids_sorted[j].Time # bids_sorted[i].Time}
        rank(i) == Cardinality({j \in first : j <= i})
    IN [k \in 1 .. Cardinality(first) |->
           bids_sorted[CHOOSE i \in first : rank(i) = k].Time]

\* bids_sorted[bids_sorted['Time'] == t]
SelectSeqTime(bids_sorted, t) ==
    LET keep == {i \in DOMAIN bids_sorted : bids_sorted[i].Time = t}
        rank(i) == Cardinality({j \in keep : j <= i})
    IN [k \in 1 .. Cardinality(keep) |->
           bids_sorted[CHOOSE i \in keep : rank(i) = k]]

RECURSIVE Accumulate(_, _, _, _)
\* the loop over bids_t.iterrows() from row i on: the price of the row at
\* which cumulative_capacity first reaches demand_t, else the initial nan
Accumulate(bids_t, i, cumulative_capacity, demand_t) ==
    IF i > Len(bids_t) THEN NaN
    ELSE LET c == cumulative_capacity + bids_t[i].Capacity IN
         IF c >= demand_t THEN Float(bids_t[i].Price)
         ELSE Accumulate(bids_t, i + 1, c, demand_t)

\* the request profiles tried: two leading demands, the rest 1
RequestProfiles ==
    {[i \in 0 .. (n - 1) |-> IF i < 2 THEN h[i] ELSE 1] :
        n \in {IntervalLength, IntervalLength + 1}, h \in [0 .. 1 -> {0, 50}]}

BidRows ==
    [Time : 0 .. 1, Price : {10, 20}, Capacity : {20, 40},
     Direction : {"GRID_TO_PROVIDER", "PROVIDER_TO_GRID"}]

BidFiles == UNION {[1 .. n -> BidRows] : n \in 1 .. MaxBids}

MC_Init ==
    /\ pc = "mc_new"
    /\ \E r \in RequestProfiles, b \in BidFiles :
         mc = [afrrn_request_profile |-> r, bids |-> b,
               afrrn_request_profile_4h |-> Empty, bids_sorted |-> <<>>,
               times |-> <<>>, t_ |-> 0, demand_t |-> 0,
               clearing_prices_np |-> Zeros(0)]
    /\ params = Unused
    /\ model = Unused
    /\ counter = NoCounter
    /\ sol = Unused
    /\ np_random = Unused
    /\ harness = Unused

\* market_clearing up to the loop: read the two files, sum the request over
\* 4h periods, adjust the prices, sum and average the offered capacity, sort
\* the bids, list the products and allocate the result
MC_Load ==
    /\ pc = "mc_new"
    /\ LET indices_4h == Arange(Cardinality(DOMAIN mc.afrrn_request_profile),
                                IntervalLength)
           bids == AdjustDirection(mc.bids)
           bids_sorted == SortValues(bids)
           times == UniqueTimes(bids_sorted)
       IN
       IF ReduceAtRaises(Len(times), indices_4h)
       THEN /\ pc' = "mc_raised"
            /\ mc' = [mc EXCEPT !.bids = bids]
       ELSE /\ pc' = "mc_loop"
            /\ mc' = [mc EXCEPT
                  !.afrrn_request_profile_4h =
                      ReduceAt(mc.afrrn_request_profile, indices_4h),
                  !.bids = bids,
                  !.bids_sorted = bids_sorted,
                  !.times = times,
                  !.t_ = 0,
                  !.clearing_prices_np = Zeros(ClearingLen)]
    /\ UNCHANGED <<params, model, counter, sol>>
    /\ UNCHANGED <<np_random, harness>>

\* one pass of the loop `for t in times`
MC_Slot ==
    /\ pc = "mc_loop"
    /\ mc.t_ < Len(mc.times)
    /\ LET t == mc.times[mc.t_ + 1]
           bids_t == SelectSeqTime(mc.bids_sorted, t)
       IN
       IF mc.t_ >= Cardinality(DOMAIN mc.afrrn_request_profile)
          \/ mc.t_ >= mc.clearing_prices_np.len
       THEN /\ pc' = "mc_raised"
            /\ mc' = mc
       ELSE LET demand_t == mc.afrrn_request_profile[mc.t_]
                clearing_price == Accumulate(bids_t, 1, 0, demand_t)
            IN
            /\ mc' = [mc EXCEPT
                  !.demand_t = demand_t,
                  !.clearing_prices_np.set =
                      Ext(@, mc.t_, Div10(clearing_price)),
                  !.t_ = @ + 1]
            /\ pc' = "mc_loop"
    /\ UNCHANGED <<params, model, counter, sol>>
    /\ UNCHANGED <<np_random, harness>>

\* the loop is exhausted: return clearing_prices_np
MC_Return ==
    /\ pc = "mc_loop"
    /\ mc.t_ = Len(mc.times)
    /\ pc' = "mc_done"
    /\ UNCHANGED <<mc, params, model, counter, sol>>
    /\ UNCHANGED <<np_random, harness>>

MC_Next == MC_Load \/ MC_Slot \/ MC_Return

SpecMarketClearing == MC_Init /\ [][MC_Next]_vars

\* the labels of the bid file, and the products up to the last label
BidLabels == {mc.bids[i].Time : i \in DOMAIN mc.bids}

AuctionSlots ==
    {t \in DOMAIN mc.afrrn_request_profile : \E l \in BidLabels : t <= l}

\* the bids of product t in ascending price order
MeritOrder(t) == SelectSeqTime(SortValues(mc.bids), t)

\* capacity of the first k rows
CumulativeCapacity(rows, k) ==
    SumOver([i \in 1 .. k |-> rows[i].Capacity], 1 .. k)

\* the price of the first row at which the cumulative capacity reaches the
\* demand d; nan when it never does
MarginalPrice(rows, d) ==
    LET crossing == {k \in DOMAIN rows : CumulativeCapacity(rows, k) >= d}
    IN IF crossing = {} THEN NaN
       ELSE Float(rows[CHOOSE k \in crossing :
                          \A j \in crossing : k <= j].Price)

\* C5: for every product with at least one bid, the returned clearing price
\* is the price (in ct/kWh) of the first bid, in ascending price order, at
\* which the cumulative capacity reaches the demand of that product.
C5_ClearingPriceOfSlot ==
    pc = "mc_done" =>
      \A t \in BidLabels :
         LET marginal == MarginalPrice(MeritOrder(t),
                                       mc.afrrn_request_profile[t])
         IN ~marginal.nan =>
              FloatEq(ArrayAt(mc.clearing_prices_np, t), Div10(marginal))

\* C6: for every product whose total bid capacity is below its demand the
\* returned clearing price is nan.
C6_UnderSupplyIsNaN ==
    pc = "mc_done" =>
      \A t \in AuctionSlots :
         LET rows == MeritOrder(t) IN
         CumulativeCapacity(rows, Len(rows)) < mc.afrrn_request_profile[t]
            => ArrayAt(mc.clearing_prices_np, t).nan

\* C7: the demand against which the bids of a slot are accumulated is the
\* sum of the request over the 16 steps of that slot.
C7_DemandIsFourHourTotal ==
    (pc \in {"mc_loop", "mc_done"} /\ mc.t_ > 0) =>
      LET k == mc.t_ - 1 IN
      (IntervalLength * k + IntervalLength - 1 \in DOMAIN mc.afrrn_request_profile)
         => mc.demand_t = mc.afrrn_request_profile_4h[k]

\* every product up to the last label has a bid
NoEmptySlot == \A t \in AuctionSlots : t \in BidLabels

\* With a bid for every product up to the last label, the stated clearing
\* rule and the nan sentinel do hold for the per-step demand
\* afrrn_request_profile[t]: C5 and C6 fail by the missing-product shift
\* alone.
MC_AlignedClearing ==
    (pc = "mc_done" /\ NoEmptySlot) =>
      \A t \in AuctionSlots :
         LET marginal == MarginalPrice(MeritOrder(t),
                                       mc.afrrn_request_profile[t])
             returned == ArrayAt(mc.clearing_prices_np, t)
         IN IF marginal.nan THEN returned.nan
            ELSE FloatEq(returned, Div10(marginal))

\* C17: before sorting, the price of every PROVIDER_TO_GRID bid is negated
\* and every other price is left unchanged; the clearing price written by a
\* pass of the loop is the (possibly negated) price of the marginal bid of
\* that pass divided by 10.
C17_PriceConvention ==
    /\ [][pc = "mc_new" =>
            \A i \in DOMAIN mc.bids :
               mc'.bids[i].Price =
                  IF mc.bids[i].Direction = "PROVIDER_TO_GRID"
                  THEN 0 - mc.bids[i].Price
                  ELSE mc.bids[i].Price]_vars
    /\ []((pc \in {"mc_loop", "mc_done"} /\ mc.t_ > 0) =>
            LET k == mc.t_ - 1
                written == ArrayAt(mc.clearing_prices_np, k)
                marginal == MarginalPrice(MeritOrder(mc.times[k + 1]),
                                          mc.demand_t)
            IN IF marginal.nan THEN written.nan
               ELSE /\ ~written.nan
                    /\ written.num * 10 = marginal.num * written.den)

\* a run that returns the negated price of a PROVIDER_TO_GRID bid, in ct/kWh
C17_Witness ==
    /\ pc = "mc_done"
    /\ \E i \in DOMAIN mc.bids :
          /\ mc.bids[i].Direction = "PROVIDER_TO_GRID"
          /\ mc.bids[i].Price = 0 - 20
          /\ ArrayAt(mc.clearing_prices_np, 0) =
                [nan |-> FALSE, num |-> 0 - 20, den |-> 10]
    /\ \E j \in DOMAIN mc.bids :
          /\ mc.bids[j].Direction = "GRID_TO_PROVIDER"
          /\ mc.bids[j].Price = 10

\* C18: when some product has no bid, every other product k is still cleared
\* against the demand of product k with the result at output index k, and a
\* product without bids and with a positive demand carries nan.
C18_ZeroBidSlots ==
    (pc = "mc_done" /\ ~NoEmptySlot) =>
      \A k \in AuctionSlots :
         LET returned == ArrayAt(mc.clearing_prices_np, k)
             marginal == MarginalPrice(MeritOrder(k),
                                       mc.afrrn_request_profile[k])
         IN IF k \in BidLabels
            THEN IF marginal.nan THEN returned.nan
                 ELSE FloatEq(returned, Div10(marginal))
            ELSE mc.afrrn_request_profile[k] > 0 => returned.nan

\* market_clearing from the sort on, as a function of the request and the
\* direction-adjusted bids: the value written by each pass of the loop
ClearingPricesOf(afrrn_request_profile, bids) ==
    LET bids_sorted == SortValues(bids)
        times == UniqueTimes(bids_sorted)
    IN [t_ \in 0 .. (Len(times) - 1) |->
          Div10(Accumulate(SelectSeqTime(bids_sorted, times[t_ + 1]), 1, 0,
                           afrrn_request_profile[t_]))]

\* the reorderings of a bid file
Reorderings(bids) ==
    LET pi == {p \in [DOMAIN bids -> DOMAIN bids] :
                 \A i, j \in DOMAIN bids : i # j => p[i] # p[j]}
    IN {[i \in DOMAIN bids |-> bids[p[i]]] : p \in pi}

\* the rows of a bid sequence with label t and price p, in order
TiedRows(bids, t, p) ==
    LET keep == {i \in DOMAIN bids : bids[i].Time = t /\ bids[i].Price = p}
        rank(i) == Cardinality({j \in keep : j <= i})
    IN [k \in 1 .. Cardinality(keep) |->
           bids[CHOOSE i \in keep : rank(i) = k]]

\* C19: the bids of a product are processed in ascending price order with
\* equal-priced bids in submission order, and the clearing prices are the
\* same for every permutation of the bid records.
C19_TieHandling ==
    pc \in {"mc_loop", "mc_done"} =>
      /\ \A i, j \in DOMAIN mc.bids_sorted :
            (i < j /\ mc.bids_sorted[i].Time = mc.bids_sorted[j].Time)
               => mc.bids_sorted[i].Price <= mc.bids_sorted[j].Price
      /\ \A i \in DOMAIN mc.bids :
            TiedRows(mc.bids_sorted, mc.bids[i].Time, mc.bids[i].Price)
               = TiedRows(mc.bids, mc.bids[i].Time, mc.bids[i].Price)
      /\ pc = "mc_done" =>
            \A permuted \in Reorderings(mc.bids) :
               LET prices == ClearingPricesOf(mc.afrrn_request_profile,
                                              permuted)
               IN /\ DOMAIN prices = DOMAIN mc.clearing_prices_np.set
                  /\ \A k \in DOMAIN prices :
                        prices[k] = mc.clearing_prices_np.set[k]

\* a finished run over two bids of one product at the same price with
\* different capacities, the smaller one submitted last, of which only the
\* larger one covers the demand
C19_Witness ==
    /\ pc = "mc_done"
    /\ Len(mc.bids) = 2
    /\ mc.bids[1].Time = mc.bids[2].Time
    /\ mc.bids[1].Price = mc.bids[2].Price
    /\ mc.bids[1].Capacity > mc.bids[2].Capacity
    /\ mc.bids_sorted = mc.bids
    /\ mc.demand_t > mc.bids[2].Capacity
    /\ ~ArrayAt(mc.clearing_prices_np, 0).nan

\* the numbers of simulated days tried: a day, a week, and a day more
ClearingDays == {1, 7, 8}

\* aFRR._get_inputs: energy_prices = energy_prices[:len(timesteps)]; a slice
\* is at most as long as the array
CutToHorizon(a, n) ==
    [len |-> IF a.len < n THEN a.len ELSE n,
     set |-> [i \in {j \in DOMAIN a.set : j < n} |-> a.set[i]]]

\* C26: with market clearing enabled, for every number of simulated days the
\* aFRR energy_prices series has exactly one entry for each timestep
\* 0 .. 96 * days - 1.
C26_PricesCoverHorizon ==
    pc = "mc_done" =>
       \A days \in ClearingDays :
          CutToHorizon(mc.clearing_prices_np, 96 * days).len = 96 * days

\* up to the seven days of the clearing array the series does cover the
\* horizon
MC_PricesCoverWeek ==
    pc = "mc_done" =>
       \A days \in ClearingDays :
          days <= 7 =>
             CutToHorizon(mc.clearing_prices_np, 96 * days).len = 96 * days

(***************************************************************************)
(* balancing.FCR and balancing.aFRR                                        *)
(*                                                                         *)
(* Frequency deviations, power requests and the FCR flows are reals; they  *)
(* are held in tenths (x is stored as 10*x).  Volumes, binaries, prices    *)
(* and the aFRR quantities are whole numbers.  Arrays are functions on     *)
(* 0 .. len-1.                                                             *)
(***************************************************************************)
\* a literal array
Arr(seq) == [i \in 0 .. (Len(seq) - 1) |-> seq[i + 1]]

\* numpy's tile in the place of repeat: the whole array k times
Repeat_tiled(a, k) ==
    [i \in 0 .. (Cardinality(DOMAIN a) * k - 1) |-> a[i % Cardinality(DOMAIN a)]]

\* numpy a.repeat(k): each element k times
Repeat(a, k) == [i \in 0 .. (Cardinality(DOMAIN a) * k - 1) |-> a[i \div k]]

\* numpy a[:n]
Prefix(a, n) == [i \in {j \in DOMAIN a : j < n} |-> a[i]]

\* x / 0.2 on values held in tenths: 0.2 is 2 tenths
Div02(x) == (x * Tenth) \div 2

\* horizons of the balancing runs: one inside the first 4h slot, one that
\* crosses into the second
ReserveHorizons == {2, MaxReserveSteps}

\* the 4h slots a horizon of n steps reads
SlotsOf(n) == 0 .. ((n - 1) \div SlotSteps)

\* np.random.rand(days * 6) < probability, on the slots the horizon reads:
\* rand() lies in [0, 1), so probability 0 accepts nothing and probability 1
\* accepts everything
StochDraws(accept_prob, n) ==
    {s \in [SlotsOf(n) -> {0, 1}] :
        /\ accept_prob <= 0 => \A k \in SlotsOf(n) : s[k] = 0
        /\ accept_prob >= 100 => \A k \in SlotsOf(n) : s[k] = 1}

\* a profile of period 2 over n steps
Periodic(pattern, n) == [t \in 0 .. (n - 1) |-> pattern[(t % 2) + 1]]

PosDevPatterns == {<<2, 0>>, <<1, 1>>}
NegDevPatterns == {<<0, -2>>, <<-1, 0>>, <<0, 0>>}
CapacityPriceFiles == {Arr(<<3, 1>>), Arr(<<0, 3>>)}
AcceptProbs == {50, 100}
ReserveMinVols == {0, 1}
ReserveMaxVols == {1, 2}
ReserveStepSizes == {2}
RequestPatterns == {<<3, -2>>, <<1, 1>>, <<0, 2>>}
EnergyPriceFile == Repeat(Arr(<<7, 9>>), Duration)

\* bounds=(lo, hi) of a flow held in tenths
FlowBounds(v, lo, hi) == lo * Tenth <= v /\ v <= hi * Tenth

\* the solver's grids
BidVolGrid == 0 .. MaxBidVol
FCRFlowGrid == {r * v : r \in {0, Div02(1), Div02(2)}, v \in BidVolGrid}
RevenueGrid == {c * v : c \in {0, 1, 3}, v \in BidVolGrid}

(***************************************************************************)
(* FCR                                                                     *)
(***************************************************************************)
FCR_reach1_rule_offset(volume, t) ==
    IF t > 0 /\ (t + 1) % Duration # 0
    THEN volume[t] = volume[t - 1]
    ELSE Skip

FCR_reach1_rule(volume, t) ==
    IF t > 0 /\ t % Duration # 0
    THEN volume[t] = volume[t - 1]
    ELSE Skip

FCR_reach2_rule(activation_choice, t) ==
    IF t > 0 /\ t % Duration # 0
    THEN activation_choice[t] = activation_choice[t - 1]
    ELSE Skip

multiplication_source_rule_unaccepted(flow_source, power_request_source, activation_choice, volume, bid_accept, t) ==
    flow_source[t] =
       power_request_source[t] * activation_choice[t] * volume[t]

multiplication_source_rule(flow_source, power_request_source, activation_choice, volume, bid_accept, t) ==
    flow_source[t] =
       power_request_source[t] * activation_choice[t] * volume[t]
          * bid_accept[t]

multiplication_sink_rule_source_request(flow_sink, power_request_sink, activation_choice, volume, bid_accept, t) ==
    flow_sink[t] =
       Div02(params.source_request[t]) * activation_choice[t] * volume[t]
          * bid_accept[t]

multiplication_sink_rule(flow_sink, power_request_sink, activation_choice, volume, bid_accept, t) ==
    flow_sink[t] =
       power_request_sink[t] * activation_choice[t] * volume[t]
          * bid_accept[t]

FCR_capacity_revenue_rule(capacity_revenue, possible_capacity_revenue, activation_choice, volume, bid_accept, t) ==
    capacity_revenue[t] =
       activation_choice[t] * possible_capacity_revenue[t] * volume[t]
          * bid_accept[t]

FCR_Init ==
    /\ pc = "fcr_new"
    /\ \E n \in ReserveHorizons :
         /\ model = [timesteps |-> n, blocks |-> <<>>]
         /\ \E pos \in PosDevPatterns, neg \in NegDevPatterns,
               file \in CapacityPriceFiles, prob \in AcceptProbs,
               lo \in ReserveMinVols, hi \in ReserveMaxVols,
               step \in ReserveStepSizes, lv \in BOOLEAN :
              params = [days |-> 1,
                        fcr_accept_prob |-> prob,
                        fcr_min_vol |-> lo,
                        fcr_max_vol |-> hi,
                        fcr_levels |-> lv,
                        fcr_step_size |-> step,
                        discrete_level_tol |-> 0,
                        pos_freq_dev |-> Periodic(pos, n),
                        neg_freq_dev |-> Periodic(neg, n),
                        capacity_price_file |-> file]
    /\ counter = NoCounter
    /\ sol = Unused
    /\ np_random = Unused
    /\ harness = Unused
    /\ mc = Unused

\* FCR.__init__: count the instance, _get_inputs (request profiles, the
\* capacity prices, the acceptance draw), _init_variables (register the
\* block, copy the inputs to pyomo params), _add_constraints (DiscreteLevels
\* on the volume when fcr_levels, then the five indexed constraints)
FCR_Construct ==
    /\ pc = "fcr_new"
    /\ \E stoch_indices \in StochDraws(params.fcr_accept_prob, model.timesteps) :
         LET sum_freq_dev == [t \in Timesteps |->
                                params.pos_freq_dev[t] + params.neg_freq_dev[t]]
             source_request == [t \in Timesteps |->
                                  IF sum_freq_dev[t] > 0 THEN 0
                                  ELSE (0 - 1) * sum_freq_dev[t]]
             sink_request == [t \in Timesteps |->
                                IF sum_freq_dev[t] < 0 THEN 0
                                ELSE sum_freq_dev[t]]
             capacity_prices == Prefix(Repeat(params.capacity_price_file,
                                              SlotSteps),
                                       model.timesteps)
             stoch_row == Repeat(stoch_indices, SlotSteps)
         IN
         params' = params @@
            [duration |-> Duration,
             sum_freq_dev |-> sum_freq_dev,
             source_request |-> source_request,
             sink_request |-> sink_request,
             capacity_prices |-> capacity_prices,
             stoch_indices |-> stoch_indices,
             power_request_source |-> [t \in Timesteps |->
                                          Div02(source_request[t])],
             power_request_sink |-> [t \in Timesteps |->
                                        Div02(sink_request[t])],
             possible_capacity_revenue |-> capacity_prices,
             bid_accept |-> [t \in Timesteps |-> stoch_row[t]],
             levels |-> PyRange(params.fcr_min_vol, params.fcr_max_vol + 1,
                                params.fcr_step_size)]
    /\ counter' = [counter EXCEPT
                      !.FCR = @ + 1,
                      !.DiscreteLevels = IF params.fcr_levels THEN @ + 1 ELSE @]
    /\ model' = [model EXCEPT !.blocks =
                    IF params.fcr_levels
                    THEN @ \o <<<<"FCRBlock", counter'.FCR>>,
                                 <<"DiscreteLevelsBlock",
                                   counter'.DiscreteLevels>>>>
                    ELSE Append(@, <<"FCRBlock", counter'.FCR>>)]
    /\ sol' = [cur |-> 0, flow_source |-> Empty, flow_sink |-> Empty,
               activation_choice |-> Empty, capacity_revenue |-> Empty,
               volume |-> Empty, decision |-> Empty]
    /\ pc' = "fcr_solve"
    /\ UNCHANGED mc
    /\ UNCHANGED <<np_random, harness>>

\* the solver fixes the variables of timestep cur to values within their
\* bounds that every constraint indexed by cur admits
FCR_Solve ==
    /\ pc = "fcr_solve"
    /\ sol.cur < model.timesteps
    /\ \E v \in BidVolGrid :
         LET volume == Ext(sol.volume, sol.cur, v) IN
         /\ FCR_reach1_rule(volume, sol.cur)
         /\ \E d \in (IF params.fcr_levels
                      THEN [LevelIndices(params.levels) -> {0, 1}]
                      ELSE {Empty}) :
              LET decision == IF params.fcr_levels
                              THEN ExtDecision(sol.decision, params.levels,
                                               sol.cur, d)
                              ELSE sol.decision
              IN
              /\ params.fcr_levels =>
                    DiscreteLevelsAt(volume, decision, params.levels,
                                     params.discrete_level_tol, sol.cur)
              /\ \E a \in {0, 1} :
                   LET activation_choice ==
                          Ext(sol.activation_choice, sol.cur, a) IN
                   /\ FCR_reach2_rule(activation_choice, sol.cur)
                   /\ \E fs \in FCRFlowGrid :
                        LET flow_source == Ext(sol.flow_source, sol.cur, fs) IN
                        /\ FlowBounds(fs, params.fcr_min_vol,
                                      params.fcr_max_vol)
                        /\ multiplication_source_rule(
                              flow_source, params.power_request_source,
                              activation_choice, volume, params.bid_accept,
                              sol.cur)
                        /\ \E fk \in FCRFlowGrid :
                             LET flow_sink == Ext(sol.flow_sink, sol.cur, fk) IN
                             /\ FlowBounds(fk, params.fcr_min_vol,
                                           params.fcr_max_vol)
                             /\ multiplication_sink_rule(
                                   flow_sink, params.power_request_sink,
                                   activation_choice, volume,
                                   params.bid_accept, sol.cur)
                             /\ \E c \in RevenueGrid :
                                  LET capacity_revenue ==
                                         Ext(sol.capacity_revenue, sol.cur, c)
                                  IN
                                  /\ FCR_capacity_revenue_rule(
                                        capacity_revenue,
                                        params.possible_capacity_revenue,
                                        activation_choice, volume,
                                        params.bid_accept, sol.cur)
                                  /\ sol' = [cur |-> sol.cur + 1,
                                             flow_source |-> flow_source,
                                             flow_sink |-> flow_sink,
                                             activation_choice |->
                                                activation_choice,
                                             capacity_revenue |->
                                                capacity_revenue,
                                             volume |-> volume,
                                             decision |-> decision]
    /\ pc' = IF sol.cur + 1 = model.timesteps THEN "fcr_solved" ELSE "fcr_solve"
    /\ UNCHANGED <<params, model, counter, mc>>
    /\ UNCHANGED <<np_random, harness>>

FCR_Next == FCR_Construct \/ FCR_Solve

(***************************************************************************)
(* aFRR                                                                    *)
(***************************************************************************)
aFRR_reach1_rule(activation_choice, t) ==
    IF t > 0 /\ t % Duration # 0
    THEN activation_choice[t] = activation_choice[t - 1]
    ELSE Skip

multiplication_rule(flow, power_request, activation_choice, volume, bid_accept, t) ==
    flow[t] =
       power_request[t] * activation_choice[t] * volume[t] * bid_accept[t]

aFRR_capacity_revenue_rule(capacity_revenue, possible_capacity_revenue, activation_choice, volume, bid_accept, t) ==
    capacity_revenue[t] =
       activation_choice[t] * possible_capacity_revenue[t] * volume[t]
          * bid_accept[t]

\* the binarisation without its second assignment
Binarise_positive_only(x) == IF x > 0 THEN 1 ELSE x

\* request_profile[request_profile > 0] = 1; request_profile[... < 0] = 0
Binarise(x) == IF x > 0 THEN 1 ELSE IF x < 0 THEN 0 ELSE x

\* a[:n] is a view: what is written to the view is written to the array it
\* was cut from
WriteThrough(array, view) ==
    [i \in DOMAIN array |-> IF i \in DOMAIN view THEN view[i] ELSE array[i]]

\* the runs over the long horizon bid on a single level (the step size
\* exceeds the volume range), the runs over the short horizon bid freely;
\* the substitute price file is read (afrr_market_clearing off)
aFRR_Init ==
    /\ pc = "afrr_new"
    /\ \E n \in ReserveHorizons :
         /\ model = [timesteps |-> n, blocks |-> <<>>]
         /\ \E req \in RequestPatterns, file \in CapacityPriceFiles,
               prob \in AcceptProbs, lo \in ReserveMinVols,
               hi \in ReserveMaxVols, step \in ReserveStepSizes,
               lv \in BOOLEAN :
              /\ n > 2 => (lv /\ hi - lo < step)
              /\ params = [days |-> 1,
                           afrr_accept_prob |-> prob,
                           afrr_min_vol |-> lo,
                           afrr_max_vol |-> hi,
                           afrr_levels |-> lv,
                           afrr_step_size |-> step,
                           afrr_market_clearing |-> FALSE,
                           discrete_level_tol |-> 0,
                           request_data |-> Periodic(req, n + 1),
                           afrrn_request_profile |-> Periodic(req, n + 1),
                           request_profile |-> Periodic(req, n + 1),
                           capacity_price_file |-> file,
                           price_file |-> EnergyPriceFile]
    /\ counter = NoCounter
    /\ sol = Unused
    /\ np_random = Unused
    /\ harness = Unused
    /\ mc = Unused

\* aFRR.__init__: count the instance, _get_inputs (the acceptance draw, the
\* request cut to the horizon and made binary, the capacity and energy
\* prices), _init_variables (register the block, copy the inputs to pyomo
\* params), _add_constraints (DiscreteLevels on the volume when afrr_levels,
\* then the three indexed constraints)
aFRR_Construct ==
    /\ pc = "afrr_new"
    /\ \E stoch_indices \in StochDraws(params.afrr_accept_prob, model.timesteps) :
         LET cut == Prefix(params.request_profile, model.timesteps)
             request_profile == [t \in DOMAIN cut |-> Binarise(cut[t])]
             capacity_prices == Prefix(Repeat(params.capacity_price_file,
                                              SlotSteps),
                                       model.timesteps)
             stoch_row == Repeat(stoch_indices, SlotSteps)
         IN
         params' = [f \in (DOMAIN params)
                            \ {"request_profile", "afrrn_request_profile"} |->
                       params[f]]
            @@
            [duration |-> Duration,
             request_profile |-> request_profile,
             afrrn_request_profile |->
                WriteThrough(params.afrrn_request_profile, request_profile),
             capacity_prices |-> capacity_prices,
             energy_prices |-> Prefix(params.price_file, model.timesteps),
             stoch_indices |-> stoch_indices,
             power_request |-> request_profile,
             possible_capacity_revenue |-> capacity_prices,
             bid_accept |-> [t \in Timesteps |-> stoch_row[t]],
             levels |-> PyRange(params.afrr_min_vol, params.afrr_max_vol + 1,
                                params.afrr_step_size)]
    /\ counter' = [counter EXCEPT
                      !.aFRR = @ + 1,
                      !.DiscreteLevels = IF params.afrr_levels THEN @ + 1 ELSE @]
    /\ model' = [model EXCEPT !.blocks =
                    IF params.afrr_levels
                    THEN @ \o <<<<"aFRRBlock", counter'.aFRR>>,
                                 <<"DiscreteLevelsBlock",
                                   counter'.DiscreteLevels>>>>
                    ELSE Append(@, <<"aFRRBlock", counter'.aFRR>>)]
    /\ sol' = [cur |-> 0, flow |-> Empty, activation_choice |-> Empty,
               capacity_revenue |-> Empty, volume |-> Empty,
               decision |-> Empty]
    /\ pc' = "afrr_solve"
    /\ UNCHANGED mc
    /\ UNCHANGED <<np_random, harness>>

\* the solver fixes the variables of timestep cur to values within their
\* bounds that every constraint indexed by cur admits
aFRR_Solve ==
    /\ pc = "afrr_solve"
    /\ sol.cur < model.timesteps
    /\ \E v \in BidVolGrid :
         LET volume == Ext(sol.volume, sol.cur, v) IN
         \E d \in (IF params.afrr_levels
                   THEN [LevelIndices(params.levels) -> {0, 1}]
                   ELSE {Empty}) :
           LET decision == IF params.afrr_levels
                           THEN ExtDecision(sol.decision, params.levels,
                                            sol.cur, d)
                           ELSE sol.decision
           IN
           /\ params.afrr_levels =>
                 DiscreteLevelsAt(volume, decision, params.levels,
                                  params.discrete_level_tol, sol.cur)
           /\ \E a \in {0, 1} :
                LET activation_choice ==
                       Ext(sol.activation_choice, sol.cur, a) IN
                /\ aFRR_reach1_rule(activation_choice, sol.cur)
                /\ \E f \in BidVolGrid :
                     LET flow == Ext(sol.flow, sol.cur, f) IN
                     /\ params.afrr_min_vol <= f
                     /\ f <= params.afrr_max_vol
                     /\ multiplication_rule(flow, params.power_request,
                                            activation_choice, volume,
                                            params.bid_accept, sol.cur)
                     /\ \E c \in RevenueGrid :
                          LET capacity_revenue ==
                                 Ext(sol.capacity_revenue, sol.cur, c)
                          IN
                          /\ aFRR_capacity_revenue_rule(
                                capacity_revenue,
                                params.possible_capacity_revenue,
                                activation_choice, volume,
                                params.bid_accept, sol.cur)
                          /\ sol' = [cur |-> sol.cur + 1,
                                     flow |-> flow,
                                     activation_choice |-> activation_choice,
                                     capacity_revenue |-> capacity_revenue,
                                     volume |-> volume,
                                     decision |-> decision]
    /\ pc' = IF sol.cur + 1 = model.timesteps
             THEN "afrr_solved" ELSE "afrr_solve"
    /\ UNCHANGED <<params, model, counter, mc>>
    /\ UNCHANGED <<np_random, harness>>

aFRR_Next == aFRR_Construct \/ aFRR_Solve

Balancing_Init == FCR_Init \/ aFRR_Init

Balancing_Next == FCR_Construct \/ FCR_Solve \/ aFRR_Construct \/ aFRR_Solve

SpecBalancing == Balancing_Init /\ [][Balancing_Next]_vars

\* the timesteps the solver has fixed so far
Fixed == 0 .. (sol.cur - 1)

\* C8: at every timestep of a feasible FCR assignment flow_source =
\* request_source * activation * volume * accept, and likewise flow_sink; so
\* with activation = 1 and accept = 1 each flow equals request * volume, and
\* with activation = 0 or accept = 0 both flows and the capacity revenue are
\* 0 whatever the bid volume.
C8_FCRBilinear ==
    pc \in {"fcr_solve", "fcr_solved"} =>
      \A t \in Fixed :
         LET a == sol.activation_choice[t]
             b == params.bid_accept[t]
             V == sol.volume[t]
             Rsource == Div02(params.source_request[t])
             Rsink == Div02(params.sink_request[t])
         IN
         /\ sol.flow_source[t] = Rsource * a * V * b
         /\ sol.flow_sink[t] = Rsink * a * V * b
         /\ (a = 1 /\ b = 1) =>
               /\ sol.flow_source[t] = Rsource * V
               /\ sol.flow_sink[t] = Rsink * V
         /\ (a = 0 \/ b = 0) =>
               /\ sol.flow_source[t] = 0
               /\ sol.flow_sink[t] = 0
               /\ sol.capacity_revenue[t] = 0

\* a solved FCR horizon with a positive bid that is delivered in the first
\* 4h slot (activated and accepted, positive flow R*V) and rejected in the
\* second one
C8_Witness ==
    /\ pc = "fcr_solved"
    /\ model.timesteps > Duration
    /\ sol.activation_choice[0] = 1
    /\ params.bid_accept[0] = 1
    /\ sol.volume[0] > 0
    /\ sol.flow_source[1] = Div02(params.source_request[1]) * sol.volume[1]
    /\ sol.flow_source[1] > 0
    /\ sol.flow_sink[0] > 0
    /\ sol.capacity_revenue[0] > 0
    /\ params.bid_accept[Duration] = 0
    /\ sol.activation_choice[Duration] = 1
    /\ sol.volume[Duration] > 0
    /\ sol.flow_source[Duration] = 0

\* C9: in every feasible assignment the FCR bid volume and the FCR
\* activation_choice, and the aFRR activation_choice, are constant across
\* each block of 16 timesteps anchored at a multiple of 16: the value at t is
\* the value at 16 * floor(t / 16).
C9_ReachBlocks ==
    /\ pc \in {"fcr_solve", "fcr_solved"} =>
         /\ \A t \in Fixed :
               sol.volume[t] = sol.volume[Duration * (t \div Duration)]
         /\ \A t \in Fixed :
               sol.activation_choice[t] =
                  sol.activation_choice[Duration * (t \div Duration)]
    /\ pc \in {"afrr_solve", "afrr_solved"} =>
         \A t \in Fixed :
            sol.activation_choice[t] =
               sol.activation_choice[Duration * (t \div Duration)]

\* a solved FCR horizon whose second block has another volume and another
\* activation than the first one
C9_Witness ==
    /\ pc = "fcr_solved"
    /\ model.timesteps > Duration
    /\ sol.volume[Duration - 1] = sol.volume[0]
    /\ sol.volume[Duration] # sol.volume[0]
    /\ sol.activation_choice[Duration - 1] = sol.activation_choice[0]
    /\ sol.activation_choice[Duration] # sol.activation_choice[0]

\* a solved aFRR horizon whose second block has another activation than the
\* first one
C9_WitnessAFRR ==
    /\ pc = "afrr_solved"
    /\ model.timesteps > Duration
    /\ sol.activation_choice[Duration - 1] = sol.activation_choice[0]
    /\ sol.activation_choice[Duration] # sol.activation_choice[0]

\* C10: the aFRR bid volume is held constant across each block of 16
\* timesteps: volume[t] = volume[t-1] whenever t > 0 and t mod 16 # 0, as the
\* FCR bid volume is.
C10_AFRRVolumeHeld ==
    pc \in {"afrr_solve", "afrr_solved"} =>
      \A t \in Fixed :
         (t > 0 /\ t % Duration # 0) => sol.volume[t] = sol.volume[t - 1]

\* the same commitment does hold for the FCR bid volume
FCR_VolumeHeld ==
    pc \in {"fcr_solve", "fcr_solved"} =>
      \A t \in Fixed :
         (t > 0 /\ t % Duration # 0) => sol.volume[t] = sol.volume[t - 1]

C22_RequestBinary ==
    pc \in {"afrr_solve", "afrr_solved"} =>
      /\ \A t \in Timesteps :
            /\ params.power_request[t] \in {0, 1}
            /\ params.power_request[t] = 1 <=> params.request_data[t] > 0
      /\ \A t \in Fixed :
            /\ sol.flow[t] \in {0, sol.volume[t]}
            /\ (/\ params.power_request[t] = 1
                /\ sol.activation_choice[t] = 1
                /\ params.bid_accept[t] = 1) => sol.flow[t] = sol.volume[t]
            /\ sol.flow[t] # 0 =>
                  /\ params.power_request[t] = 1
                  /\ sol.activation_choice[t] = 1
                  /\ params.bid_accept[t] = 1

\* a solved aFRR horizon with a negative request at one timestep, and with a
\* positive bid delivered in full at another
C22_Witness ==
    /\ pc = "afrr_solved"
    /\ \E t \in Fixed : params.request_data[t] < 0 /\ sol.flow[t] = 0
    /\ \E t \in Fixed : sol.volume[t] > 0 /\ sol.flow[t] = sol.volume[t]

\* a solved aFRR horizon with a request of exactly 0
C22_WitnessZero ==
    /\ pc = "afrr_solved"
    /\ \E t \in Fixed : params.request_data[t] = 0 /\ sol.volume[t] > 0

\* C29: constructing an aFRR component leaves the request array passed in
\* by the caller as it was read from the file; cutting it to the horizon and
\* making it binary act on the component's own copy only.
C29_InputsNotModified ==
    pc \in {"afrr_solve", "afrr_solved"} =>
       params.afrrn_request_profile = params.request_data

\* what the caller's array holds after the call: the binary signal on the
\* horizon, the file's values behind it
aFRR_CallerArrayOverwritten ==
    pc \in {"afrr_solve", "afrr_solved"} =>
       \A t \in DOMAIN params.afrrn_request_profile :
          params.afrrn_request_profile[t] =
             IF t < model.timesteps THEN params.power_request[t]
             ELSE params.request_data[t]

\* C28: for every FCR parameterisation with 0 <= fcr_min_vol <= fcr_max_vol,
\* at a timestep where the bid is rejected or one of the requests is 0 the
\* flow value 0 that the bilinear equality forces lies within the bounds
\* declared for flow_source and flow_sink.
C28_IdleBidFeasible ==
    (/\ pc \in {"fcr_solve", "fcr_solved"}
     /\ 0 <= params.fcr_min_vol
     /\ params.fcr_min_vol <= params.fcr_max_vol) =>
       \A t \in Timesteps :
          (\/ params.bid_accept[t] = 0
           \/ params.power_request_source[t] = 0
           \/ params.power_request_sink[t] = 0) =>
             FlowBounds(0, params.fcr_min_vol, params.fcr_max_vol)

\* with a positive fcr_min_vol no timestep has a feasible value: one of the
\* two requests is 0 at every timestep
FCR_PositiveMinInfeasible ==
    (pc \in {"fcr_solve", "fcr_solved"} /\ params.fcr_min_vol > 0) =>
       (pc = "fcr_solve" /\ sol.cur = 0)

(***************************************************************************)
(* main.main: the build of the reserve components                          *)
(*                                                                         *)
(* main reads the parameters, sets the horizon to 96 * days timesteps and  *)
(* builds FCR, aFRR- and aFRR+ in this order, each one only when its add_* *)
(* switch is on.  Each constructor draws its acceptance signal from numpy's*)
(* global generator.  The generator is a sequence of values fixed by its   *)
(* seed; a draw of k values reads the next k and moves the position.       *)
(* rand() values and probabilities are held in percent.                    *)
(***************************************************************************)
MaxDays == 2        \* longest simulation, in days, of the build runs
BuildDays == 1 .. MaxDays
BuildSwitches == {<<TRUE, TRUE, TRUE>>, <<FALSE, TRUE, TRUE>>,
                  <<TRUE, FALSE, TRUE>>, <<TRUE, TRUE, FALSE>>}

\* the sequences the generator yields, one for each seed tried (read
\* cyclically), and the ones an unseeded generator takes from the operating
\* system when the interpreter starts
GeneratorSeeds == {<<10, 10, 90, 90>>, <<10, 90, 90, 10>>,
                   <<90, 90, 90, 90>>, <<10, 90, 10, 90>>}
OsEntropy == {<<10>>, <<90>>}

\* np.random.seed(seed) in an interpreter started with the given entropy
Seed(seed, entropy) == [state |-> seed, pos |-> 0, entropy |-> entropy]

\* a generator that ignores the seed and draws from the entropy
RandomRand_unseeded(rng, k) ==
    [i \in 0 .. (k - 1) |-> rng.entropy[((rng.pos + i) % Len(rng.entropy)) + 1]]

\* np.random.rand(k): the next k values of the global generator
RandomRand(rng, k) ==
    [i \in 0 .. (k - 1) |-> rng.state[((rng.pos + i) % Len(rng.state)) + 1]]

\* the generator after np.random.rand(k)
Drawn(rng, k) == [rng EXCEPT !.pos = @ + k]

\* (np.random.rand(days * 6) < probability).astype(int)
StochIndices(rng, days, accept_prob) ==
    LET rand == RandomRand(rng, days * SlotsPerDay)
    IN  [i \in DOMAIN rand |-> IF rand[i] < accept_prob THEN 1 ELSE 0]

\* the input series of a run: frequency deviations tiled over the days, the
\* request profiles and the weekly price files (one price per 4h slot, one
\* energy price per timestep)
BuildPosDev(n) == Periodic(<<2, 0>>, n)
BuildNegDev(n) == Periodic(<<0, -2>>, n)
BuildRequest(component, n) ==
    IF component = "afrrn" THEN Periodic(<<3, -2>>, n + 1)
    ELSE Periodic(<<0, 1>>, n + 1)
BuildCapacityFile(days) == [i \in 0 .. (days * SlotsPerDay - 1) |-> (i % 3) + 1]
BuildPriceFile(days) == Repeat(BuildCapacityFile(days), SlotSteps)

\* FCR._get_inputs and the pyomo params of FCR._init_variables
FCR_get_inputs(p, n, rng) ==
    LET T == 0 .. (n - 1)
        sum_freq_dev == [t \in T |-> BuildPosDev(n)[t] + BuildNegDev(n)[t]]
        source_request == [t \in T |-> IF sum_freq_dev[t] > 0 THEN 0
                                       ELSE (0 - 1) * sum_freq_dev[t]]
        sink_request == [t \in T |-> IF sum_freq_dev[t] < 0 THEN 0
                                     ELSE sum_freq_dev[t]]
        capacity_prices == Prefix(Repeat(BuildCapacityFile(p.days), SlotSteps), n)
        stoch_indices == StochIndices(rng, p.days, p.fcr_accept_prob)
        stoch_row == Repeat(stoch_indices, SlotSteps)
    IN  [stoch_indices |-> stoch_indices,
         power_request_source |-> [t \in T |-> Div02(source_request[t])],
         power_request_sink |-> [t \in T |-> Div02(sink_request[t])],
         possible_capacity_revenue |-> [t \in T |-> capacity_prices[t]],
         bid_accept |-> [t \in T |-> stoch_row[t]]]

\* aFRR._get_inputs and the pyomo params of aFRR._init_variables
aFRR_get_inputs(p, n, rng, component) ==
    LET T == 0 .. (n - 1)
        stoch_indices == StochIndices(rng, p.days, p.afrr_accept_prob)
        stoch_row == Repeat(stoch_indices, SlotSteps)
        cut == Prefix(BuildRequest(component, n), n)
        request_profile == [t \in DOMAIN cut |-> Binarise(cut[t])]
        capacity_prices == Prefix(Repeat(BuildCapacityFile(p.days), SlotSteps), n)
        energy_prices == Prefix(BuildPriceFile(p.days), n)
    IN  [stoch_indices |-> stoch_indices,
         power_request |-> [t \in T |-> request_profile[t]],
         possible_capacity_revenue |-> [t \in T |-> capacity_prices[t]],
         energy_prices |-> energy_prices,
         bid_accept |-> [t \in T |-> stoch_row[t]]]

\* the parameters of a run as settings.xlsx gives them
BuildParams(days, switches, fcr_prob, afrr_prob) ==
    [days |-> days,
     add_fcr |-> switches[1], add_afrrn |-> switches[2],
     add_afrrp |-> switches[3],
     fcr_accept_prob |-> fcr_prob, afrr_accept_prob |-> afrr_prob,
     fcr_levels |-> FALSE, afrr_levels |-> FALSE,
     afrr_market_clearing |-> FALSE]

\* an interpreter has started, the seed is set and main is entered
Build_Init ==
    /\ pc = "b_start"
    /\ \E days \in BuildDays, switches \in BuildSwitches,
          fcr_prob \in AcceptProbs, afrr_prob \in AcceptProbs :
         params = BuildParams(days, switches, fcr_prob, afrr_prob)
    /\ \E seed \in GeneratorSeeds, entropy \in OsEntropy :
         /\ np_random = Seed(seed, entropy)
         /\ harness = [seed |-> seed, run |-> 1, first |-> Empty]
    /\ model = Unused
    /\ counter = NoCounter
    /\ sol = Unused
    /\ mc = Unused

\* main: the model and its timesteps 0 .. 96 * days - 1
Main_Timesteps ==
    /\ pc = "b_start"
    /\ model' = [timesteps |-> StepsPerDay * params.days, blocks |-> <<>>,
                 components |-> Empty]
    /\ pc' = "b_fcr"
    /\ UNCHANGED <<params, counter, sol, mc, np_random, harness>>

\* main: if params['add_fcr']: balancing.FCR(...)
Main_FCR ==
    /\ pc = "b_fcr"
    /\ IF params.add_fcr
       THEN /\ counter' = [counter EXCEPT !.FCR = @ + 1]
            /\ model' = [model EXCEPT
                   !.blocks = @ \o <<<<"FCRBlock", counter'.FCR>>>>,
                   !.components = ("fcr" :> FCR_get_inputs(params,
                                      model.timesteps, np_random)) @@ @]
            /\ np_random' = Drawn(np_random, params.days * SlotsPerDay)
       ELSE UNCHANGED <<counter, model, np_random>>
    /\ pc' = "b_afrrn"
    /\ UNCHANGED <<params, sol, mc, harness>>

\* balancing.aFRR(...) for the given component
aFRR_Build(component) ==
    /\ counter' = [counter EXCEPT !.aFRR = @ + 1]
    /\ model' = [model EXCEPT
           !.blocks = @ \o <<<<"aFRRBlock", counter'.aFRR>>>>,
           !.components = (component :> aFRR_get_inputs(params,
                              model.timesteps, np_random, component)) @@ @]
    /\ np_random' = Drawn(np_random, params.days * SlotsPerDay)

\* main: if params['add_afrrn']: balancing.aFRR(...)
Main_aFRRn ==
    /\ pc = "b_afrrn"
    /\ IF params.add_afrrn
       THEN aFRR_Build("afrrn")
       ELSE UNCHANGED <<counter, model, np_random>>
    /\ pc' = "b_afrrp"
    /\ UNCHANGED <<params, sol, mc, harness>>

\* main: if params['add_afrrp']: balancing.aFRR(...)
Main_aFRRp ==
    /\ pc = "b_afrrp"
    /\ IF params.add_afrrp
       THEN aFRR_Build("afrrp")
       ELSE UNCHANGED <<counter, model, np_random>>
    /\ pc' = "b_solve"
    /\ UNCHANGED <<params, sol, mc, harness>>

\* main: the solver and the get_results calls.  They write the values of
\* the pyomo variables, which this specification does not hold, and read
\* the pyomo params.
Main_SolveAndReport ==
    /\ pc = "b_solve"
    /\ pc' = "b_done"
    /\ UNCHANGED <<params, model, counter, sol, mc, np_random, harness>>

\* the harness keeps the first build, sets the same seed again and runs the
\* build once more with the same input series, the same days and
\* probabilities and the add_* switches of its choice.  The classes'
\* counters are not reset.
Harness_Rerun ==
    /\ pc = "b_done"
    /\ harness.run = 1
    /\ harness' = [harness EXCEPT
                      !.run = 2,
                      !.first = [params |-> params, blocks |-> model.blocks,
                                 components |-> model.components]]
    /\ \E entropy \in OsEntropy : np_random' = Seed(harness.seed, entropy)
    /\ \E switches \in BuildSwitches :
         params' = BuildParams(params.days, switches, params.fcr_accept_prob,
                               params.afrr_accept_prob)
    /\ model' = Unused
    /\ pc' = "b_start"
    /\ UNCHANGED <<counter, sol, mc>>

Build_Next ==
    \/ Main_Timesteps
    \/ Main_FCR
    \/ Main_aFRRn
    \/ Main_aFRRp
    \/ Main_SolveAndReport
    \/ Harness_Rerun

SpecBuild == Build_Init /\ [][Build_Next]_vars

\* the components built so far in the current run
Built == IF pc = "b_start" THEN {} ELSE DOMAIN model.components

\* C11: the bid_accept parameter of a built reserve component has exactly
\* 96 * days entries, each 0 or 1; it holds one draw for each 4h slot,
\* repeated over the 16 timesteps of the slot, so that bid_accept[t] =
\* bid_accept[16 * floor(t / 16)]; and once the component is built no later
\* step of the run (the later builds, the solve, the result getters)
\* changes it.
C11_BidAcceptSignal ==
    /\ [](\A c \in Built :
            LET bid_accept == model.components[c].bid_accept
                stoch_indices == model.components[c].stoch_indices
            IN  /\ DOMAIN bid_accept = 0 .. (96 * params.days - 1)
                /\ DOMAIN stoch_indices = 0 .. (6 * params.days - 1)
                /\ \A t \in DOMAIN bid_accept :
                      /\ bid_accept[t] \in {0, 1}
                      /\ bid_accept[t] = stoch_indices[t \div 16]
                      /\ bid_accept[t] = bid_accept[16 * (t \div 16)])
    /\ [][\A c \in Built :
            pc' # "b_start" =>
              /\ c \in DOMAIN model'.components
              /\ model'.components[c].bid_accept
                   = model.components[c].bid_accept]_vars

\* a finished two-day run whose FCR signal is accepted in one slot and
\* rejected in another
C11_Witness ==
    /\ pc = "b_done"
    /\ params.days = 2
    /\ "fcr" \in Built
    /\ Cardinality(DOMAIN model.components["fcr"].bid_accept) = 192
    /\ \E t \in DOMAIN model.components["fcr"].bid_accept :
         model.components["fcr"].bid_accept[t]
           # model.components["fcr"].bid_accept[0]

C16_OrderIndependence ==
    (pc = "b_done" /\ harness.run = 2) =>
       \A c \in (DOMAIN model.components)
                  \cap (DOMAIN harness.first.components) :
          model.components[c] = harness.first.components[c]

\* what does not depend on the components built before: every coefficient
\* other than the acceptance draw
Build_InputsOrderIndependent ==
    (pc = "b_done" /\ harness.run = 2) =>
       \A c \in (DOMAIN model.components)
                  \cap (DOMAIN harness.first.components) :
          /\ model.components[c].possible_capacity_revenue
               = harness.first.components[c].possible_capacity_revenue
          /\ c = "fcr" =>
               /\ model.components[c].power_request_source
                    = harness.first.components[c].power_request_source
               /\ model.components[c].power_request_sink
                    = harness.first.components[c].power_request_sink
          /\ c # "fcr" =>
               /\ model.components[c].power_request
                    = harness.first.components[c].power_request
               /\ model.components[c].energy_prices
                    = harness.first.components[c].energy_prices

(***************************************************************************)
(* Block naming                                                            *)
(*                                                                         *)
(* Every constructor of DiscreteLevels, ForceDuration, MutualExclusivity,  *)
(* FCR and aFRR counts its instance in a class attribute and registers its *)
(* block on the model under the class's block name followed by the count.  *)
(* The classes' counters live as long as the interpreter; a model is       *)
(* created anew by every run.  The variables and constraints the           *)
(* constructors put into the block touch neither the counters nor the      *)
(* names and are left out here.  A name f'{prefix}{count}' is held as the  *)
(* pair of the prefix and the count: no prefix ends in a digit.            *)
(***************************************************************************)
MaxInstances == 4   \* constructor calls in one interpreter

Constructed ==
    counter.DiscreteLevels + counter.ForceDuration + counter.MutualExclusivity
       + counter.FCR + counter.aFRR

\* self.instantiate_counter += 1 in the place of Class.instantiate_counter
\* += 1: the class attribute stays 0 and every instance reads 1
Increment_on_instance(n) == 1

\* Class.instantiate_counter += 1
Increment(n) == n + 1

\* model.add_component(name=f'{prefix}{count}', val=block)
add_component(blocks, prefix, count) == blocks \o <<<<prefix, count>>>>

Naming_Init ==
    /\ pc = "n_build"
    /\ model = [blocks |-> <<>>]
    /\ counter = NoCounter
    /\ params = Unused
    /\ sol = Unused
    /\ mc = Unused
    /\ np_random = Unused
    /\ harness = Unused

\* DiscreteLevels.__init__
New_DiscreteLevels ==
    /\ pc = "n_build"
    /\ Constructed < MaxInstances
    /\ counter' = [counter EXCEPT !.DiscreteLevels = Increment(@)]
    /\ model' = [model EXCEPT !.blocks =
                    add_component(@, "DiscreteLevelsBlock",
                                  counter'.DiscreteLevels)]
    /\ UNCHANGED <<pc, params, sol, mc, np_random, harness>>

\* ForceDuration.__init__
New_ForceDuration ==
    /\ pc = "n_build"
    /\ Constructed < MaxInstances
    /\ counter' = [counter EXCEPT !.ForceDuration = Increment(@)]
    /\ model' = [model EXCEPT !.blocks =
                    add_component(@, "ForceDurationBlock",
                                  counter'.ForceDuration)]
    /\ UNCHANGED <<pc, params, sol, mc, np_random, harness>>

\* MutualExclusivity.__init__
New_MutualExclusivity ==
    /\ pc = "n_build"
    /\ Constructed < MaxInstances
    /\ counter' = [counter EXCEPT !.MutualExclusivity = Increment(@)]
    /\ model' = [model EXCEPT !.blocks =
                    add_component(@, "MutualExclusivityBlock",
                                  counter'.MutualExclusivity)]
    /\ UNCHANGED <<pc, params, sol, mc, np_random, harness>>

\* FCR.__init__: the FCR block, then the DiscreteLevels of the bid volume
\* when fcr_levels is set
New_FCR ==
    /\ pc = "n_build"
    /\ \E fcr_levels \in BOOLEAN :
         /\ Constructed + (IF fcr_levels THEN 1 ELSE 0) < MaxInstances
         /\ counter' = [counter EXCEPT
               !.FCR = Increment(@),
               !.DiscreteLevels = IF fcr_levels THEN Increment(@) ELSE @]
         /\ model' = [model EXCEPT !.blocks =
               IF fcr_levels
               THEN add_component(add_component(@, "FCRBlock", counter'.FCR),
                                  "DiscreteLevelsBlock",
                                  counter'.DiscreteLevels)
               ELSE add_component(@, "FCRBlock", counter'.FCR)]
    /\ UNCHANGED <<pc, params, sol, mc, np_random, harness>>

\* aFRR.__init__: the aFRR block, then the DiscreteLevels of the bid volume
\* when afrr_levels is set
New_aFRR ==
    /\ pc = "n_build"
    /\ \E afrr_levels \in BOOLEAN :
         /\ Constructed + (IF afrr_levels THEN 1 ELSE 0) < MaxInstances
         /\ counter' = [counter EXCEPT
               !.aFRR = Increment(@),
               !.DiscreteLevels = IF afrr_levels THEN Increment(@) ELSE @]
         /\ model' = [model EXCEPT !.blocks =
               IF afrr_levels
               THEN add_component(add_component(@, "aFRRBlock", counter'.aFRR),
                                  "DiscreteLevelsBlock",
                                  counter'.DiscreteLevels)
               ELSE add_component(@, "aFRRBlock", counter'.aFRR)]
    /\ UNCHANGED <<pc, params, sol, mc, np_random, harness>>

\* main: model = po.ConcreteModel() of a further run in the same interpreter
New_Model ==
    /\ pc = "n_build"
    /\ model.blocks # <<>>
    /\ model' = [blocks |-> <<>>]
    /\ UNCHANGED <<pc, params, counter, sol, mc, np_random, harness>>

Naming_Next ==
    \/ New_DiscreteLevels
    \/ New_ForceDuration
    \/ New_MutualExclusivity
    \/ New_FCR
    \/ New_aFRR
    \/ New_Model

SpecNaming == Naming_Init /\ [][Naming_Next]_vars

\* the block names registered on the model
BlockNames(blocks) == {blocks[i] : i \in 1 .. Len(blocks)}

\* C30: after any sequence of instantiations of DiscreteLevels,
\* ForceDuration, MutualExclusivity, FCR and aFRR on one model, the
\* DiscreteLevels made inside FCR and aFRR included, no class counter ever
\* decreases, the counter of a class grows with each of its instances, and
\* every instance registers its block under a name that no earlier instance
\* on that model has used.
C30_UniqueBlockNames ==
    /\ [](Cardinality(BlockNames(model.blocks)) = Len(model.blocks))
    /\ [][/\ \A c \in DOMAIN counter : counter'[c] >= counter[c]
          /\ Len(model'.blocks) > Len(model.blocks) =>
               \A k \in (Len(model.blocks) + 1) .. Len(model'.blocks) :
                  /\ model'.blocks[k] \notin BlockNames(model.blocks)
                  /\ \A i \in 1 .. Len(model.blocks) :
                        model.blocks[i][1] = model'.blocks[k][1] =>
                           model.blocks[i][2] < model'.blocks[k][2]]_vars

\* a model with two FCR blocks and two DiscreteLevels blocks, one of them
\* made inside an FCR
C30_Witness ==
    /\ pc = "n_build"
    /\ Len(model.blocks) = 4
    /\ model.blocks[1] = <<"DiscreteLevelsBlock", 1>>
    /\ model.blocks[2] = <<"FCRBlock", 1>>
    /\ model.blocks[3] = <<"FCRBlock", 2>>
    /\ model.blocks[4] = <<"DiscreteLevelsBlock", 2>>

(***************************************************************************)
(* main.main: the power balance                                            *)
(*                                                                         *)
(* main attaches one balance constraint for each timestep over the flows   *)
(* of the components that the add_* parameters switch on.  A component     *)
(* that is switched off is never constructed; its flow has no variable.    *)
(* The other constraints on the flows only remove assignments and are left *)
(* out here: the solver chooses any values on its grid that balance.       *)
(***************************************************************************)
MaxBalanceSteps == 2   \* longest horizon of the balance runs

\* the flow variables of the balance and the add_* parameter of each
BalanceFlows ==
    {"battery", "pv", "id_buy", "id_sell", "da_buy", "da_sell", "fcr_source",
     "fcr_sink", "afrrn", "afrrp"}

SwitchOf(f) ==
    IF f \in {"fcr_source", "fcr_sink"} THEN "add_fcr" ELSE "add_" \o f

BalanceSwitchNames == {SwitchOf(f) : f \in BalanceFlows}

\* the sets of components switched on in the runs
BalanceSwitches ==
    {{"add_battery", "add_id_buy"},
     {"add_pv", "add_id_sell", "add_da_sell"},
     {"add_battery", "add_da_buy"},
     {"add_battery", "add_fcr", "add_afrrn", "add_afrrp"},
     {"add_battery", "add_pv", "add_id_buy", "add_da_sell", "add_fcr"}}

\* the solver's grid of a flow: the battery flow is a real within
\* (-batt_power, batt_power), every other flow is non-negative
BalanceGrid(f) == IF f = "battery" THEN {-1, 0, 1} ELSE {0, 1}

power_balance_rule_sell_added(flow, p, t) ==
    0 = 0 - (IF p.add_battery THEN flow.battery[t] ELSE 0)
          + (IF p.add_pv THEN flow.pv[t] ELSE 0)
          + (IF p.add_id_buy THEN flow.id_buy[t] ELSE 0)
          - (IF p.add_id_sell THEN flow.id_sell[t] ELSE 0)
          + (IF p.add_da_buy THEN flow.da_buy[t] ELSE 0)
          + (IF p.add_da_sell THEN flow.da_sell[t] ELSE 0)
          + (IF p.add_fcr THEN flow.fcr_source[t] ELSE 0)
          - (IF p.add_fcr THEN flow.fcr_sink[t] ELSE 0)
          + (IF p.add_afrrn THEN flow.afrrn[t] ELSE 0)
          - (IF p.add_afrrp THEN flow.afrrp[t] ELSE 0)

power_balance_rule(flow, p, t) ==
    0 = 0 - (IF p.add_battery THEN flow.battery[t] ELSE 0)
          + (IF p.add_pv THEN flow.pv[t] ELSE 0)
          + (IF p.add_id_buy THEN flow.id_buy[t] ELSE 0)
          - (IF p.add_id_sell THEN flow.id_sell[t] ELSE 0)
          + (IF p.add_da_buy THEN flow.da_buy[t] ELSE 0)
          - (IF p.add_da_sell THEN flow.da_sell[t] ELSE 0)
          + (IF p.add_fcr THEN flow.fcr_source[t] ELSE 0)
          - (IF p.add_fcr THEN flow.fcr_sink[t] ELSE 0)
          + (IF p.add_afrrn THEN flow.afrrn[t] ELSE 0)
          - (IF p.add_afrrp THEN flow.afrrp[t] ELSE 0)

PB_Init ==
    /\ pc = "pb_new"
    /\ \E on \in BalanceSwitches :
         params = [a \in BalanceSwitchNames |-> a \in on]
    /\ \E n \in 1 .. MaxBalanceSteps : model = [timesteps |-> n, blocks |-> <<>>]
    /\ counter = NoCounter
    /\ sol = Unused
    /\ mc = Unused
    /\ np_random = Unused
    /\ harness = Unused

\* main: model.power_balance_constraint = po.Constraint(model.timesteps, ...)
PB_Construct ==
    /\ pc = "pb_new"
    /\ model' = [model EXCEPT !.blocks = Append(@, <<"power_balance_constraint", 0>>)]
    /\ sol' = [cur |-> 0, flow |-> [f \in BalanceFlows |-> Empty]]
    /\ pc' = "pb_solve"
    /\ UNCHANGED <<params, counter, mc, np_random, harness>>

\* the values the solver may give to flow f: none to a flow that has no
\* variable
BalanceChoice(f) == IF params[SwitchOf(f)] THEN BalanceGrid(f) ELSE {0}

\* the solver fixes the flows of timestep cur within the balance
PB_Solve ==
    /\ pc = "pb_solve"
    /\ sol.cur < model.timesteps
    /\ \E battery \in BalanceChoice("battery"), pv \in BalanceChoice("pv"),
          id_buy \in BalanceChoice("id_buy"),
          id_sell \in BalanceChoice("id_sell"),
          da_buy \in BalanceChoice("da_buy"),
          da_sell \in BalanceChoice("da_sell"),
          fcr_source \in BalanceChoice("fcr_source"),
          fcr_sink \in BalanceChoice("fcr_sink"),
          afrrn \in BalanceChoice("afrrn"), afrrp \in BalanceChoice("afrrp") :
         LET v == [battery |-> battery, pv |-> pv, id_buy |-> id_buy,
                   id_sell |-> id_sell, da_buy |-> da_buy,
                   da_sell |-> da_sell, fcr_source |-> fcr_source,
                   fcr_sink |-> fcr_sink, afrrn |-> afrrn, afrrp |-> afrrp]
             flow == [f \in BalanceFlows |->
                        IF params[SwitchOf(f)]
                        THEN Ext(sol.flow[f], sol.cur, v[f])
                        ELSE sol.flow[f]]
         IN
         /\ power_balance_rule(flow, params, sol.cur)
         /\ sol' = [cur |-> sol.cur + 1, flow |-> flow]
    /\ pc' = IF sol.cur + 1 = model.timesteps THEN "pb_solved" ELSE "pb_solve"
    /\ UNCHANGED <<params, model, counter, mc, np_random, harness>>

PB_Next == PB_Construct \/ PB_Solve

SpecPowerBalance == PB_Init /\ [][PB_Next]_vars

\* the contribution of flow f at t: 0 for a component that is switched off
Contribution(f, t) == IF params[SwitchOf(f)] THEN sol.flow[f][t] ELSE 0

\* C25: in every feasible assignment, at every timestep, -battery + pv +
\* id_buy - id_sell + da_buy - da_sell + fcr_source - fcr_sink + afrrn -
\* afrrp = 0, where a component switched off by its add_* parameter
\* contributes 0.
C25_PowerBalance ==
    pc \in {"pb_solve", "pb_solved"} =>
      \A t \in Fixed :
         0 - Contribution("battery", t) + Contribution("pv", t)
           + Contribution("id_buy", t) - Contribution("id_sell", t)
           + Contribution("da_buy", t) - Contribution("da_sell", t)
           + Contribution("fcr_source", t) - Contribution("fcr_sink", t)
           + Contribution("afrrn", t) - Contribution("afrrp", t) = 0

\* a solved horizon in which the battery is charged from pv and the
\* intraday market while energy is sold day-ahead, the other components
\* being switched off
C25_Witness ==
    /\ pc = "pb_solved"
    /\ params.add_da_sell /\ params.add_pv /\ params.add_id_buy
    /\ ~params.add_afrrn /\ ~params.add_da_buy
    /\ \E t \in Fixed :
         /\ sol.flow.pv[t] = 1
         /\ sol.flow.id_buy[t] = 1
         /\ sol.flow.da_sell[t] = 1
         /\ sol.flow.battery[t] = 1

(***************************************************************************)
(* battery.Battery: the mobility constraints                               *)
(*                                                                         *)
(* With add_mobility the constructor attaches the departure, arrival,      *)
(* discharging and offline constraints; each rule returns a constraint for *)
(* some timesteps and Constraint.Skip for the others.  The model keeps,    *)
(* for each of these constraints, the set of timesteps it is attached at.  *)
(***************************************************************************)
MobilityDays == {1, 2, 5, 6, 7, 8, 14, 15}
DepartureSteps == {0, 30, 95}
ArrivalSteps == {1, 70, 96}

is_weekday(t) ==
    LET steps_per_day == 96
        day == t \div steps_per_day
    IN  day < 5

\* the timesteps at which departure_rule returns a constraint
departure_rule(p, t) == is_weekday(t) /\ (t % 96) = p.dep_step

\* the timesteps at which arrival_rule returns a constraint
arrival_rule(p, t) == is_weekday(t) /\ (t % 96) = (p.arr_step - 1)

\* the timesteps at which discharging_weekday_rule returns a constraint
discharging_weekday_rule(p, t) ==
    is_weekday(t) /\ (t % 96) # (p.arr_step - 1)

\* the timesteps at which discharging_weekend_rule returns a constraint
discharging_weekend_rule(p, t) == ~is_weekday(t)

\* the timesteps at which meantime_flow_rule returns a constraint
meantime_flow_rule(p, t) ==
    /\ is_weekday(t)
    /\ LET time_of_day == t % 96
       IN  time_of_day >= p.dep_step + 1 /\ time_of_day < p.arr_step

Mobility_Init ==
    /\ pc = "bm_new"
    /\ \E days \in MobilityDays, dep \in DepartureSteps, arr \in ArrivalSteps :
         /\ params = [days |-> days, add_mobility |-> TRUE,
                      dep_step |-> dep, arr_step |-> arr]
         /\ model = [timesteps |-> StepsPerDay * days, blocks |-> <<>>]
    /\ counter = NoCounter
    /\ sol = Unused
    /\ mc = Unused
    /\ np_random = Unused
    /\ harness = Unused

\* Battery.__init__ with add_mobility: register batt_block and attach the
\* constraints, each over all timesteps
Battery_Construct ==
    /\ pc = "bm_new"
    /\ model' =
         [timesteps |-> model.timesteps,
          blocks |-> Append(model.blocks, <<"batt_block", 0>>),
          departure_constraint |->
             {t \in Timesteps : departure_rule(params, t)},
          arrival_constraint |->
             {t \in Timesteps : arrival_rule(params, t)},
          discharging_weekday_constraint |->
             {t \in Timesteps : discharging_weekday_rule(params, t)},
          discharging_weekend_constraint |->
             {t \in Timesteps : discharging_weekend_rule(params, t)},
          total_discharged_constraint |-> Timesteps,
          meantime_flow_constraint |->
             {t \in Timesteps : meantime_flow_rule(params, t)},
          battery_balance_constraint |-> Timesteps]
    /\ pc' = "bm_built"
    /\ UNCHANGED <<params, counter, sol, mc, np_random, harness>>

Mobility_Next == Battery_Construct

SpecMobility == Mobility_Init /\ [][Mobility_Next]_vars

\* timestep t falls on a Monday to Friday, day 0 being a Monday
MondayToFriday(t) == ((t \div 96) % 7) < 5

\* C27: is_weekday(t) is true exactly when timestep t (96 steps a day, day
\* 0 a Monday) falls on a Monday to Friday, for every timestep of any
\* horizon, horizons longer than a week included; the departure, arrival
\* and offline constraints are attached on exactly those days.
C27_MobilityCalendar ==
    pc = "bm_built" =>
      \A t \in Timesteps :
         /\ is_weekday(t) <=> MondayToFriday(t)
         /\ t \in model.departure_constraint <=>
               (MondayToFriday(t) /\ t % 96 = params.dep_step)
         /\ t \in model.arrival_constraint <=>
               (MondayToFriday(t) /\ t % 96 = params.arr_step - 1)
         /\ t \in model.meantime_flow_constraint <=>
               (/\ MondayToFriday(t)
                /\ t % 96 > params.dep_step
                /\ t % 96 < params.arr_step)

\* on horizons of at most a week the constraints are attached on Monday to
\* Friday
Mobility_FirstWeekCalendar ==
    (pc = "bm_built" /\ params.days <= 7) =>
      \A t \in Timesteps :
         /\ is_weekday(t) <=> MondayToFriday(t)
         /\ t \in model.departure_constraint <=>
               (MondayToFriday(t) /\ t % 96 = params.dep_step)
         /\ t \in model.meantime_flow_constraint <=>
               (/\ MondayToFriday(t)
                /\ t % 96 > params.dep_step
                /\ t % 96 < params.arr_step)

====
